---- MODULE Spec2Model ----
(***************************************************************************)
(* Deleveraging cascade simulation (simulation/src/cascade.rs).            *)
(*                                                                         *)
(* One run of CascadeSimulation: new() followed by run(), whose loop body  *)
(* is apply_price_shock, run_liquidation_round and the wave bookkeeping.   *)
(*                                                                         *)
(* Numbers.  The program computes in f64.  Here money is an integer number *)
(* of dimes (PriceScale per dollar), collateral an integer number of ETH,  *)
(* and a collateral ratio an integer number of thousandths (RatioScale).   *)
(* Every multiplication by a fraction and every division rounds down to    *)
(* the unit, as an f64 operation rounds to its last bit.                   *)
(*                                                                         *)
(* Randomness.  Every value drawn from the random source is chosen from a  *)
(* small set: CdpDraws, GasPriorityDraws, ShockReturns, BOOLEAN (the jump) *)
(* and ExecutorDraws.                                                      *)
(***************************************************************************)
EXTENDS Integers, Sequences, FiniteSets, TLC

VARIABLES
    mechanism,                  \* CascadeSimulation.mechanism
    scenario,                   \* CascadeSimulation.scenario
    cdps,                       \* CascadeSimulation.cdps
    keepers,                    \* CascadeSimulation.keepers
    eth_price,                  \* CascadeSimulation.eth_price (dimes)
    block,                      \* CascadeSimulation.block
    cascade_depth,              \* CascadeSimulation.cascade_depth
    current_wave_liquidations,  \* CascadeSimulation.current_wave_liquidations
    total_liquidations,         \* CascadeSimulation.total_liquidations
    total_bad_debt,             \* CascadeSimulation.total_bad_debt (dimes)
    price_history,              \* CascadeSimulation.price_history
    liquidations_per_block,     \* CascadeSimulation.liquidations_per_block
    consecutive_empty_blocks,   \* local of run()
    max_wave_liquidations,      \* local of run()
    liquidatable,               \* local of run_liquidation_round(): the ranked snapshot
    considered,                 \* how many entries of the snapshot the for loop has taken
    liquidations_this_block,    \* local of run_liquidation_round()
    eth_sold_this_block,        \* local of run_liquidation_round()
    pc,                         \* position in run(): loop, round, liquidate, finish, done
    result,                     \* the CascadeResult run() returns
    model,                      \* the PriceModel given to monte_carlo.rs
    runs,                       \* the run count given to a batch
    results,                    \* the Vec<CascadeResult> of a batch
    outcome,                    \* the MonteCarloResults computed so far
    aggregate,                  \* what aggregate_results returned
    blocks,                     \* PricePathConfig.blocks
    prices,                     \* local of generate_price_path()
    current_vol,                \* local of generate_price_path() (hundredths)
    mc_pc                       \* position in the batch layer

\* the variables of one CascadeSimulation and its run()
runVars == <<mechanism, scenario, cdps, keepers, eth_price, block, cascade_depth,
             current_wave_liquidations, total_liquidations, total_bad_debt,
             price_history, liquidations_per_block, consecutive_empty_blocks,
             max_wave_liquidations, liquidatable, considered,
             liquidations_this_block, eth_sold_this_block, pc, result>>

\* the variables of the callers of run() and of generate_price_path()
batchVars == <<model, runs, results, outcome, aggregate, blocks, prices,
               current_vol, mc_pc>>

vars == <<runVars, batchVars>>

---------------------------------------------------------------------------
(* Sizes, scaled down from the program's (500, 50, 10, 100).               *)

NUM_CDPS == 3
NUM_KEEPERS == 5
LIQUIDATIONS_PER_BLOCK == 2
MAX_BLOCKS == 14
SmallBatch == 3
MidBatch == 20
MaxBatch == 100
MaxRuns == 2
ShockBlocks == 24
MaxSteps == 25
SampledSteps == 2
MaxJumps == 2
FarTail == 3000
\* the bits of the significand of a floating-point number (53 in f64)
MantissaBits == 12

(* Program constants.                                                      *)

INITIAL_ETH_PRICE == 2000
LiquidationPenaltyPct == 13
PriceImpactDenominator == 10000
PriceFloor == 100
TraditionalThreshold == 50
KeeperPoolThreshold == 10
KeeperSharePct == 70
StableBlocks == 5
MinBlocks == 10
TopShareDivisor == 5
InsolvencyThreshold == 100000
P95 == 950
P99 == 990
P999 == 999
INITIAL_PRICE == 2000
PathFloor == 50
Volatility == 1500
GarchAlpha == 100
GarchBeta == 850
MinVol == 500
MaxVol == 3000
NoisePct == 2

(* Fixed-point units.                                                      *)

PriceScale == 2 * 5
RatioScale == 10 * 10 * 10
Infinity == 1000 * 1000 * 1000

MIN_COLLATERAL_RATIO == (3 * RatioScale) \div 2

LiquidationMechanism == {"Traditional", "KeeperPool"}
PriceScenario == {"GradualDecline", "FlashCrash", "VolatileCrash", "BlackSwan"}

Max(a, b) == IF a >= b THEN a ELSE b
Min(a, b) == IF a <= b THEN a ELSE b

RECURSIVE SumRange(_, _, _)
SumRange(s, lo, hi) ==
    IF lo > hi THEN 0
    ELSE IF lo = hi THEN s[lo]
    ELSE LET mid == (lo + hi) \div 2
         IN  SumRange(s, lo, mid) + SumRange(s, mid + 1, hi)

\* (the set constructor binds the sequence to its value, computed once)
SumSeq(s) == CHOOSE sum \in {SumRange(t, 1, Len(t)) : t \in {s}} : TRUE

RECURSIVE MaxRange(_, _, _)
MaxRange(s, lo, hi) ==
    IF lo > hi THEN 0
    ELSE IF lo = hi THEN Max(s[lo], 0)
    ELSE LET mid == (lo + hi) \div 2
         IN  Max(MaxRange(s, lo, mid), MaxRange(s, mid + 1, hi))

\* the largest entry of a sequence, 0 when there is none above 0: fold(0, max)
MaxSeq(s) == CHOOSE max \in {MaxRange(t, 1, Len(t)) : t \in {s}} : TRUE

---------------------------------------------------------------------------
(* Values of the random source.                                            *)

\* (collateral in ETH, initial ratio in percent) of one CDP::new
CdpDraws == {<<1, 150>>, <<1, 183>>, <<15, 206>>}

\* the keepers that share the highest score in the draw with a tie at the top
TiedFast == {1, 3}

\* gas_priority of the keepers, in percent: no keeper is fast, one keeper is
\* fast, or the keepers of TiedFast are equally fast
GasPriorityDraws ==
    {[k \in 1..NUM_KEEPERS |-> IF k = fast THEN 90 ELSE 10] : fast \in 0..NUM_KEEPERS}
        \cup {[k \in 1..NUM_KEEPERS |-> IF k \in TiedFast THEN 90 ELSE 10]}

\* capital of a keeper, in dollars
CapitalDraws == {10000}

\* Normal(-0.02, 0.05) samples, in percent: the mean, a gain, and a far-tail
\* loss that takes the price below the floor within MAX_BLOCKS blocks
ShockReturns == {-150, -2, 5}

\* the blocks of a Volatile Crash whose sample ranges over ShockReturns; in
\* the other blocks the sample is the mean, -2 percent
SampledBlocks == {0}

\* the blocks of a Volatile Crash in which the 10 percent jump may happen
JumpBlocks == {5}

\* gen_range(0..len) outcomes: the first and the last willing keeper
ExecutorDraws(len) == {1, len}

---------------------------------------------------------------------------
(* CDP                                                                     *)

CdpNew(collateral, ratio_pct) ==
    [collateral |-> collateral,
     debt |-> (collateral * INITIAL_ETH_PRICE * PriceScale * 100) \div ratio_pct,
     is_liquidated |-> FALSE]

\* a ratio of debt to collateral value instead of collateral value to debt
collateral_ratio_inverted(cdp, price) ==
    IF cdp.debt = 0 THEN Infinity
    ELSE (cdp.debt * RatioScale) \div (cdp.collateral * price)

collateral_ratio(cdp, price) ==
    IF cdp.debt = 0 THEN Infinity
    ELSE (cdp.collateral * price * RatioScale) \div cdp.debt

is_underwater(cdp, price) == collateral_ratio(cdp, price) < RatioScale

is_liquidatable_ignoring_flag(cdp, price) ==
    collateral_ratio(cdp, price) < MIN_COLLATERAL_RATIO

is_liquidatable(cdp, price) ==
    ~cdp.is_liquidated /\ collateral_ratio(cdp, price) < MIN_COLLATERAL_RATIO

liquidation_profit(cdp, price) ==
    Max(((cdp.collateral * price - cdp.debt) * LiquidationPenaltyPct) \div 100, 0)

bad_debt_ignoring_flag(cdp, price) ==
    IF is_underwater(cdp, price)
    THEN Max(cdp.debt - cdp.collateral * price, 0)
    ELSE 0

bad_debt(cdp, price) ==
    IF is_underwater(cdp, price) /\ ~cdp.is_liquidated
    THEN Max(cdp.debt - cdp.collateral * price, 0)
    ELSE 0

(* Keeper                                                                  *)

KeeperNew(capital, gas_priority) ==
    [capital |-> capital, gas_priority |-> gas_priority,
     total_profit |-> 0, liquidations |-> 0]

willing_at_traditional_threshold(keeper, profit, mech) ==
    profit > TraditionalThreshold * PriceScale

\* the two thresholds the wrong way round
willing_with_thresholds_swapped(keeper, profit, mech) ==
    IF mech = "Traditional"
    THEN profit > KeeperPoolThreshold * PriceScale
    ELSE profit > TraditionalThreshold * PriceScale

\* a keeper whose willingness also depends on its own priority score
willing_only_when_fast(keeper, profit, mech) ==
    /\ keeper.gas_priority > 50
    /\ IF mech = "Traditional"
       THEN profit > TraditionalThreshold * PriceScale
       ELSE profit > KeeperPoolThreshold * PriceScale

\* a keeper that also takes a profit exactly at the threshold
willing_at_or_above_threshold(keeper, profit, mech) ==
    IF mech = "Traditional"
    THEN profit >= TraditionalThreshold * PriceScale
    ELSE profit >= KeeperPoolThreshold * PriceScale

willing_to_liquidate(keeper, profit, mech) ==
    IF mech = "Traditional"
    THEN profit > TraditionalThreshold * PriceScale
    ELSE profit > KeeperPoolThreshold * PriceScale

---------------------------------------------------------------------------
(* CascadeSimulation::new and the locals of run()                          *)

NoResult == [pending |-> TRUE]

\* run() called on its own: no batch, no statistics, no price path
NoBatch ==
    /\ model = "none"
    /\ runs = 1
    /\ results = <<>>
    /\ outcome = <<>>
    /\ aggregate = NoResult
    /\ blocks = 0
    /\ prices = <<>>
    /\ current_vol = 0
    /\ mc_pc = "run"

Init ==
    /\ mechanism \in LiquidationMechanism
    /\ scenario \in PriceScenario
    /\ \E draws \in [1..NUM_CDPS -> CdpDraws] :
          cdps = [i \in 1..NUM_CDPS |-> CdpNew(draws[i][1], draws[i][2])]
    /\ \E prio \in GasPriorityDraws, capital \in [1..NUM_KEEPERS -> CapitalDraws] :
          keepers = [k \in 1..NUM_KEEPERS |-> KeeperNew(capital[k], prio[k])]
    /\ eth_price = INITIAL_ETH_PRICE * PriceScale
    /\ block = 0
    /\ cascade_depth = 0
    /\ current_wave_liquidations = 0
    /\ total_liquidations = 0
    /\ total_bad_debt = 0
    /\ price_history = <<INITIAL_ETH_PRICE * PriceScale>>
    /\ liquidations_per_block = <<>>
    /\ consecutive_empty_blocks = 0
    /\ max_wave_liquidations = 0
    /\ liquidatable = <<>>
    /\ considered = 0
    /\ liquidations_this_block = 0
    /\ eth_sold_this_block = 0
    /\ pc = "loop"
    /\ result = NoResult
    /\ NoBatch

---------------------------------------------------------------------------
(* apply_price_shock                                                       *)

\* the price after the scenario's multiplication, before the floor
\* schedules that run one block longer
ShockedPriceOneBlockLonger(scen, blk, price, ret, jump) ==
    CASE scen = "GradualDecline" ->
            IF blk <= 10 THEN (price * 98) \div 100 ELSE price
      [] scen = "FlashCrash" ->
            IF blk <= 1 THEN (price * 70) \div 100 ELSE price
      [] scen = "VolatileCrash" ->
            LET moved == (price * (100 + ret)) \div 100
            IN  IF jump THEN (moved * 9) \div 10 ELSE moved
      [] scen = "BlackSwan" ->
            IF blk = 0 THEN (price * 50) \div 100
            ELSE IF blk <= 20 THEN (price * 99) \div 100 ELSE price

\* a Black Swan whose continuing decline is a recovery of 1 percent a block
ShockedPriceRecovering(scen, blk, price, ret, jump) ==
    CASE scen = "GradualDecline" ->
            IF blk < 10 THEN (price * 98) \div 100 ELSE price
      [] scen = "FlashCrash" ->
            IF blk = 0 THEN (price * 70) \div 100 ELSE price
      [] scen = "VolatileCrash" ->
            LET moved == (price * (100 + ret)) \div 100
            IN  IF jump THEN (moved * 9) \div 10 ELSE moved
      [] scen = "BlackSwan" ->
            IF blk = 0 THEN (price * 50) \div 100
            ELSE IF blk < 20 THEN (price * 101) \div 100 ELSE price

ShockedPrice(scen, blk, price, ret, jump) ==
    CASE scen = "GradualDecline" ->
            IF blk < 10 THEN (price * 98) \div 100 ELSE price
      [] scen = "FlashCrash" ->
            IF blk = 0 THEN (price * 70) \div 100 ELSE price
      [] scen = "VolatileCrash" ->
            LET moved == (price * (100 + ret)) \div 100
            IN  IF jump THEN (moved * 9) \div 10 ELSE moved
      [] scen = "BlackSwan" ->
            IF blk = 0 THEN (price * 50) \div 100
            ELSE IF blk < 20 THEN (price * 99) \div 100 ELSE price

Unclamped(price) == price

ClampPrice(price) == Max(price, PriceFloor * PriceScale)

ReturnDraws(scen, blk) ==
    IF scen = "VolatileCrash" /\ blk \in SampledBlocks THEN ShockReturns ELSE {-2}

JumpDraws(scen, blk) ==
    IF scen = "VolatileCrash" /\ blk \in JumpBlocks THEN BOOLEAN ELSE {FALSE}

WhileConditionInclusive(blk) == blk <= MAX_BLOCKS

\* the condition of the while loop of run()
WhileCondition(blk) == blk < MAX_BLOCKS

ApplyPriceShock ==
    /\ pc = "loop"
    /\ WhileCondition(block)
    /\ \E ret \in ReturnDraws(scenario, block), jump \in JumpDraws(scenario, block) :
          LET shocked == ClampPrice(ShockedPrice(scenario, block, eth_price, ret, jump))
          IN  /\ eth_price' = shocked
              /\ price_history' = Append(price_history, shocked)
    /\ pc' = "round"
    /\ UNCHANGED <<mechanism, scenario, cdps, keepers, block, cascade_depth,
                   current_wave_liquidations, total_liquidations, total_bad_debt,
                   liquidations_per_block, consecutive_empty_blocks,
                   max_wave_liquidations, liquidatable, considered,
                   liquidations_this_block, eth_sold_this_block, result>>
    /\ UNCHANGED batchVars

---------------------------------------------------------------------------
(* run_liquidation_round                                                   *)

\* a comparison that puts the highest ratio first
RankedBeforeDescending(cs, price, a, b) ==
    \/ collateral_ratio(cs[a], price) > collateral_ratio(cs[b], price)
    \/ /\ collateral_ratio(cs[a], price) = collateral_ratio(cs[b], price)
       /\ a <= b

\* sort_by on the collateral ratio is stable: equal ratios keep index order
RankedBefore(cs, price, a, b) ==
    \/ collateral_ratio(cs[a], price) < collateral_ratio(cs[b], price)
    \/ /\ collateral_ratio(cs[a], price) = collateral_ratio(cs[b], price)
       /\ a <= b

RECURSIVE SortByRatio(_, _, _)
SortByRatio(S, cs, price) ==
    IF S = {} THEN <<>>
    ELSE LET first == CHOOSE a \in S : \A b \in S : RankedBefore(cs, price, a, b)
         IN  <<first>> \o SortByRatio(S \ {first}, cs, price)

RankedLiquidatable(cs, price) ==
    SortByRatio({i \in 1..NUM_CDPS : is_liquidatable(cs[i], price)}, cs, price)

TakenAll(ranked) == Len(ranked)

\* a loop that visits one entry more than the limit
TakenOneMore(ranked) == Min(Len(ranked), LIQUIDATIONS_PER_BLOCK + 1)

\* the entries of the snapshot the for loop visits: take(LIQUIDATIONS_PER_BLOCK)
Taken(ranked) == Min(Len(ranked), LIQUIDATIONS_PER_BLOCK)

ParticipatingKeepers(ks, profit, mech) ==
    LET upTo[k \in 0..NUM_KEEPERS] ==
            IF k = 0 THEN <<>>
            ELSE IF willing_to_liquidate(ks[k], profit, mech)
                 THEN Append(upTo[k - 1], k)
                 ELSE upTo[k - 1]
    IN  upTo[NUM_KEEPERS]

TraditionalFirst(ks, participating) == participating[1]

\* max_by on gas_priority returns the last of several equal maxima
\* a winner that is the first of several equal maxima
TraditionalFirstOfTied(ks, participating) ==
    LET idx == {participating[n] : n \in 1..Len(participating)}
    IN  CHOOSE w \in idx : \A k \in idx :
            \/ ks[k].gas_priority < ks[w].gas_priority
            \/ ks[k].gas_priority = ks[w].gas_priority /\ k >= w

TraditionalWinner(ks, participating) ==
    LET idx == {participating[n] : n \in 1..Len(participating)}
    IN  CHOOSE w \in idx : \A k \in idx :
            \/ ks[k].gas_priority < ks[w].gas_priority
            \/ ks[k].gas_priority = ks[w].gas_priority /\ k <= w

KeeperShareFull(profit) == profit

KeeperShare(profit) == (profit * KeeperSharePct) \div 100

PerKeeper(profit, len) == KeeperShare(profit) \div len

\* an impact of 1 percent of the price per ETH sold
ImpactedPricePerCent(price, eth_sold) ==
    ClampPrice((price * (100 - eth_sold)) \div 100)

ImpactedPrice(price, eth_sold) ==
    ClampPrice((price * (PriceImpactDenominator - eth_sold)) \div PriceImpactDenominator)

BeginLiquidationRound ==
    /\ pc = "round"
    /\ liquidatable' = RankedLiquidatable(cdps, eth_price)
    /\ considered' = 0
    /\ liquidations_this_block' = 0
    /\ eth_sold_this_block' = 0
    /\ pc' = "liquidate"
    /\ UNCHANGED <<mechanism, scenario, cdps, keepers, eth_price, block,
                   cascade_depth, current_wave_liquidations, total_liquidations,
                   total_bad_debt, price_history, liquidations_per_block,
                   consecutive_empty_blocks, max_wave_liquidations, result>>
    /\ UNCHANGED batchVars

\* the position and profit of the for loop's next iteration
NextCdp == liquidatable[considered + 1]
NextProfit == liquidation_profit(cdps[NextCdp], eth_price)
NextParticipating == ParticipatingKeepers(keepers, NextProfit, mechanism)

InRound == pc = "liquidate" /\ considered < Taken(liquidatable)

\* a liquidation that is left out of the block's count
MarkLiquidatedUncounted ==
    /\ eth_sold_this_block' = eth_sold_this_block + cdps[NextCdp].collateral
    /\ cdps' = [cdps EXCEPT ![NextCdp].is_liquidated = TRUE]
    /\ liquidations_this_block' = liquidations_this_block
    /\ considered' = considered + 1

MarkLiquidated ==
    /\ eth_sold_this_block' = eth_sold_this_block + cdps[NextCdp].collateral
    /\ cdps' = [cdps EXCEPT ![NextCdp].is_liquidated = TRUE]
    /\ liquidations_this_block' = liquidations_this_block + 1
    /\ considered' = considered + 1

SkipPositionSelling ==
    /\ InRound
    /\ NextParticipating = <<>>
    /\ considered' = considered + 1
    /\ eth_sold_this_block' = eth_sold_this_block + cdps[NextCdp].collateral
    /\ UNCHANGED <<mechanism, scenario, cdps, keepers, eth_price, block,
                   cascade_depth, current_wave_liquidations, total_liquidations,
                   total_bad_debt, price_history, liquidations_per_block,
                   consecutive_empty_blocks, max_wave_liquidations, liquidatable,
                   liquidations_this_block, pc, result>>
    /\ UNCHANGED batchVars

SkipPosition ==
    /\ InRound
    /\ NextParticipating = <<>>
    /\ considered' = considered + 1
    /\ UNCHANGED <<mechanism, scenario, cdps, keepers, eth_price, block,
                   cascade_depth, current_wave_liquidations, total_liquidations,
                   total_bad_debt, price_history, liquidations_per_block,
                   consecutive_empty_blocks, max_wave_liquidations, liquidatable,
                   liquidations_this_block, eth_sold_this_block, pc, result>>
    /\ UNCHANGED batchVars

LiquidateTraditionalAnyWilling ==
    /\ InRound
    /\ NextParticipating # <<>>
    /\ mechanism = "Traditional"
    /\ \E winner_idx \in {NextParticipating[n] : n \in 1..Len(NextParticipating)} :
          keepers' = [keepers EXCEPT
                ![winner_idx].total_profit = @ + NextProfit,
                ![winner_idx].liquidations = @ + 1]
    /\ MarkLiquidated
    /\ UNCHANGED <<mechanism, scenario, eth_price, block, cascade_depth,
                   current_wave_liquidations, total_liquidations, total_bad_debt,
                   price_history, liquidations_per_block, consecutive_empty_blocks,
                   max_wave_liquidations, liquidatable, pc, result>>
    /\ UNCHANGED batchVars

LiquidateTraditional ==
    /\ InRound
    /\ NextParticipating # <<>>
    /\ mechanism = "Traditional"
    /\ LET winner_idx == TraditionalWinner(keepers, NextParticipating)
       IN  keepers' = [keepers EXCEPT
                ![winner_idx].total_profit = @ + NextProfit,
                ![winner_idx].liquidations = @ + 1]
    /\ MarkLiquidated
    /\ UNCHANGED <<mechanism, scenario, eth_price, block, cascade_depth,
                   current_wave_liquidations, total_liquidations, total_bad_debt,
                   price_history, liquidations_per_block, consecutive_empty_blocks,
                   max_wave_liquidations, liquidatable, pc, result>>
    /\ UNCHANGED batchVars

\* a pool that pays the whole keeper share to the executor
LiquidateKeeperPoolExecutorOnly ==
    /\ InRound
    /\ NextParticipating # <<>>
    /\ mechanism = "KeeperPool"
    /\ \E draw \in ExecutorDraws(Len(NextParticipating)) :
          LET winner_idx == NextParticipating[draw]
          IN  keepers' = [keepers EXCEPT
                ![winner_idx].total_profit = @ + KeeperShare(NextProfit),
                ![winner_idx].liquidations = @ + 1]
    /\ MarkLiquidated
    /\ UNCHANGED <<mechanism, scenario, eth_price, block, cascade_depth,
                   current_wave_liquidations, total_liquidations, total_bad_debt,
                   price_history, liquidations_per_block, consecutive_empty_blocks,
                   max_wave_liquidations, liquidatable, pc, result>>
    /\ UNCHANGED batchVars

LiquidateKeeperPool ==
    /\ InRound
    /\ NextParticipating # <<>>
    /\ mechanism = "KeeperPool"
    /\ \E draw \in ExecutorDraws(Len(NextParticipating)) :
          LET per_keeper == PerKeeper(NextProfit, Len(NextParticipating))
              paid == {NextParticipating[n] : n \in 1..Len(NextParticipating)}
              winner_idx == NextParticipating[draw]
          IN  keepers' = [k \in 1..NUM_KEEPERS |->
                [keepers[k] EXCEPT
                    !.total_profit = IF k \in paid THEN @ + per_keeper ELSE @,
                    !.liquidations = IF k = winner_idx THEN @ + 1 ELSE @]]
    /\ MarkLiquidated
    /\ UNCHANGED <<mechanism, scenario, eth_price, block, cascade_depth,
                   current_wave_liquidations, total_liquidations, total_bad_debt,
                   price_history, liquidations_per_block, consecutive_empty_blocks,
                   max_wave_liquidations, liquidatable, pc, result>>
    /\ UNCHANGED batchVars

---------------------------------------------------------------------------
(* The end of run_liquidation_round (apply_liquidation_price_impact, the   *)
(* returned count) and the rest of the loop body of run().                 *)

DepthAfterEveryEmptyBlock(depth, wave, liquidations) ==
    IF liquidations = 0 THEN depth + 1 ELSE depth

DepthAfterPerLiquidation(depth, wave, liquidations) == depth + liquidations

\* cascade_depth after a block with `liquidations` liquidations
DepthAfter(depth, wave, liquidations) ==
    IF liquidations = 0 /\ wave > 0 THEN depth + 1 ELSE depth

EmptyAfter(empty, liquidations) ==
    IF liquidations > 0 THEN 0 ELSE empty + 1

BreaksFromBlockTen(empty_after, blk, liquidations) ==
    liquidations = 0 /\ empty_after >= StableBlocks /\ blk >= MinBlocks

\* the break of the loop: only in a block without liquidations
Breaks(empty_after, blk, liquidations) ==
    liquidations = 0 /\ empty_after >= StableBlocks /\ blk > MinBlocks

EndBlock ==
    /\ pc = "liquidate"
    /\ considered >= Taken(liquidatable)
    /\ eth_price' = ImpactedPrice(eth_price, eth_sold_this_block)
    /\ liquidations_per_block' = Append(liquidations_per_block, liquidations_this_block)
    /\ total_liquidations' = total_liquidations + liquidations_this_block
    /\ current_wave_liquidations' =
          IF liquidations_this_block > 0
          THEN current_wave_liquidations + liquidations_this_block
          ELSE 0
    /\ max_wave_liquidations' =
          IF liquidations_this_block > 0
          THEN Max(max_wave_liquidations, liquidations_this_block)
          ELSE max_wave_liquidations
    /\ cascade_depth' =
          DepthAfter(cascade_depth, current_wave_liquidations, liquidations_this_block)
    /\ consecutive_empty_blocks' =
          EmptyAfter(consecutive_empty_blocks, liquidations_this_block)
    /\ IF Breaks(consecutive_empty_blocks', block, liquidations_this_block)
       THEN block' = block /\ pc' = "finish"
       ELSE block' = block + 1 /\ pc' = "loop"
    /\ UNCHANGED <<mechanism, scenario, cdps, keepers, total_bad_debt,
                   price_history, liquidatable, considered,
                   liquidations_this_block, eth_sold_this_block, result>>
    /\ UNCHANGED batchVars

---------------------------------------------------------------------------
(* After the loop: calculate_bad_debt and the CascadeResult                *)

calculate_bad_debt(cs, price) ==
    SumSeq([i \in 1..NUM_CDPS |-> bad_debt(cs[i], price)])

\* the n largest entries of a sequence, largest first: sort_by descending
\* and take(n)
RECURSIVE TopEntries(_, _)
TopEntries(s, n) ==
    IF n = 0 \/ s = <<>> THEN <<>>
    ELSE LET at == CHOOSE i \in 1..Len(s) : \A j \in 1..Len(s) : s[j] <= s[i]
             rest == [j \in 1..(Len(s) - 1) |-> IF j < at THEN s[j] ELSE s[j + 1]]
         IN  <<s[at]>> \o TopEntries(rest, n - 1)

KeeperProfits(ks) == [k \in 1..NUM_KEEPERS |-> ks[k].total_profit]

\* f64 arithmetic, with a significand of MantissaBits bits in place of 53:
\* the number of binary digits of n
RECURSIVE BitLength(_)
BitLength(n) == IF n = 0 THEN 0 ELSE 1 + BitLength(n \div 2)

RECURSIVE Pow2(_)
Pow2(e) == IF e = 0 THEN 1 ELSE 2 * Pow2(e - 1)

\* the representable value nearest to n, ties to even
RoundFloat(n) ==
    CHOOSE r \in
        {LET u == Pow2(Max(BitLength(x) - MantissaBits, 0))
             q == x \div u
             rem == x % u
         IN  IF 2 * rem < u THEN q * u
             ELSE IF 2 * rem > u THEN (q + 1) * u
             ELSE IF q % 2 = 0 THEN q * u
             ELSE (q + 1) * u : x \in {n}} : TRUE

\* iter().sum() over f64: every partial sum is rounded
FloatSum(s) ==
    LET acc[k \in 0..Len(s)] ==
            IF k = 0 THEN 0 ELSE RoundFloat(acc[k - 1] + s[k])
    IN  acc[Len(s)]

ProfitConcentrationDefaultOne(ks) ==
    LET total_profit == FloatSum(KeeperProfits(ks))
    IN  IF total_profit > 0
        THEN (FloatSum(TopEntries(KeeperProfits(ks), NUM_KEEPERS \div TopShareDivisor))
                 * RatioScale) \div total_profit
        ELSE RatioScale

\* in thousandths
ProfitConcentration(ks) ==
    LET total_profit == FloatSum(KeeperProfits(ks))
    IN  IF total_profit > 0
        THEN (FloatSum(TopEntries(KeeperProfits(ks), NUM_KEEPERS \div TopShareDivisor))
                 * RatioScale) \div total_profit
        ELSE 0

\* in thousandths
ParticipationRate(ks) ==
    (Cardinality({k \in 1..NUM_KEEPERS : ks[k].liquidations > 0}) * RatioScale)
        \div NUM_KEEPERS

\* in thousandths of a percent
PriceDropPct(price) ==
    (((INITIAL_ETH_PRICE * PriceScale - price) * RatioScale)
        \div (INITIAL_ETH_PRICE * PriceScale)) * 100

UnliquidatedUnderwater(cs, price) ==
    Cardinality({i \in 1..NUM_CDPS : is_underwater(cs[i], price) /\ ~cs[i].is_liquidated})

LoopExited == (pc = "loop" /\ ~WhileCondition(block)) \/ pc = "finish"

\* the CascadeResult built from the state the loop left
CascadeResult ==
    [mechanism |-> mechanism,
     scenario |-> scenario,
     cascade_depth |-> cascade_depth,
     total_liquidations |-> total_liquidations,
     bad_debt |-> calculate_bad_debt(cdps, eth_price),
     blocks_to_stability |-> block,
     final_price |-> eth_price,
     price_drop_pct |-> PriceDropPct(eth_price),
     profit_concentration |-> ProfitConcentration(keepers),
     participation_rate |-> ParticipationRate(keepers),
     unliquidated_underwater |-> UnliquidatedUnderwater(cdps, eth_price),
     max_liquidations_per_block |-> MaxSeq(liquidations_per_block)]

Finish ==
    /\ LoopExited
    /\ total_bad_debt' = calculate_bad_debt(cdps, eth_price)
    /\ result' = CascadeResult
    /\ pc' = "done"
    /\ UNCHANGED <<mechanism, scenario, cdps, keepers, eth_price, block,
                   cascade_depth, current_wave_liquidations, total_liquidations,
                   price_history, liquidations_per_block, consecutive_empty_blocks,
                   max_wave_liquidations, liquidatable, considered,
                   liquidations_this_block, eth_sold_this_block>>
    /\ UNCHANGED batchVars

Next ==
    \/ ApplyPriceShock
    \/ BeginLiquidationRound
    \/ SkipPosition
    \/ LiquidateTraditional
    \/ LiquidateKeeperPool
    \/ EndBlock
    \/ Finish

Spec == Init /\ [][Next]_vars

---------------------------------------------------------------------------
(* monte_carlo.rs: percentile, expected_shortfall and the statistics of    *)
(* run_monte_carlo; cascade.rs: aggregate_results.  Confidence levels and  *)
(* probabilities are in thousandths, averages of counts in thousandths.    *)

PriceModel ==
    {"GBM", "JumpDiffusion", "GARCH",
     "HistoricalMar2020", "HistoricalMay2021", "HistoricalNov2022"}

\* a / b rounded to the nearest integer, halves away from zero (f64::round)
RoundDiv(a, b) == (2 * a + b) \div (2 * b)

\* a / b rounded up (f64::ceil)
CeilDiv(a, b) == (a + b - 1) \div b

\* the result of 0.0 / 0.0: no amount, rate or probability
NaN == 0 - Infinity

\* the index out of bounds of results[0] on an empty slice
Panic == [panicked |-> TRUE]

\* how many entries of s are below v, and how many are not above it
CountBelow(s) ==
    [v \in {s[j] : j \in 1..Len(s)} |-> Cardinality({j \in 1..Len(s) : s[j] < v})]

CountUpTo(s) ==
    [v \in {s[j] : j \in 1..Len(s)} |-> Cardinality({j \in 1..Len(s) : s[j] <= v})]

\* sort_by(partial_cmp) on numbers: position i holds the value with fewer
\* than i entries below it and at least i entries not above it.  (The set
\* constructor binds the two counts to their values, computed once.)
SortAscending(s) ==
    CHOOSE sorted \in
        {[i \in 1..Len(s) |-> CHOOSE v \in DOMAIN below : below[v] < i /\ i <= upto[v]] :
            below \in {CountBelow(s)}, upto \in {CountUpTo(s)}} : TRUE

\* a percentile that truncates the rank instead of rounding it
percentile_truncating(sorted, p) ==
    IF sorted = <<>> THEN 0
    ELSE LET idx == ((Len(sorted) - 1) * p) \div RatioScale
         IN  sorted[Min(idx, Len(sorted) - 1) + 1]

percentile(sorted, p) ==
    IF sorted = <<>> THEN 0
    ELSE LET idx == RoundDiv((Len(sorted) - 1) * p, RatioScale)
         IN  sorted[Min(idx, Len(sorted) - 1) + 1]

\* expected_shortfall averaging the whole batch instead of its tail
expected_shortfall_of_whole_batch(sorted, p) ==
    IF sorted = <<>> THEN 0 ELSE SumSeq(sorted) \div Len(sorted)

expected_shortfall(sorted, p) ==
    IF sorted = <<>> THEN 0
    ELSE LET cutoff_idx == CeilDiv(Len(sorted) * p, RatioScale)
             tail == SubSeq(sorted, cutoff_idx + 1, Len(sorted))
         IN  IF tail = <<>> THEN sorted[Len(sorted)]
             ELSE SumSeq(tail) \div Len(tail)

\* x / n in f64 for a count or sum x >= 0 and a count n: 0/0 is NaN
Ratio(x, n) == IF n = 0 THEN (IF x = 0 THEN NaN ELSE Infinity) ELSE x \div n

BadDebts(rs) == [i \in 1..Len(rs) |-> rs[i].bad_debt]

\* the MonteCarloResult built from the batch, its bad debts and these sorted
MonteCarloResultOf(mdl, mech, n, rs, bad_debts, sorted_bad_debts) ==
    LET bad_debt_count == Cardinality({i \in 1..Len(rs) : bad_debts[i] > 0})
        insolvency_count ==
            Cardinality({i \in 1..Len(rs) :
                            bad_debts[i] > InsolvencyThreshold * PriceScale})
    IN  [model |-> mdl,
         mechanism |-> mech,
         runs |-> n,
         bad_debts |-> bad_debts,
         price_drops |-> [i \in 1..Len(rs) |-> rs[i].price_drop_pct],
         liquidation_counts |-> [i \in 1..Len(rs) |-> rs[i].total_liquidations],
         participation_rates |-> [i \in 1..Len(rs) |-> rs[i].participation_rate],
         var_95 |-> percentile(sorted_bad_debts, P95),
         var_99 |-> percentile(sorted_bad_debts, P99),
         var_999 |-> percentile(sorted_bad_debts, P999),
         cvar_95 |-> expected_shortfall(sorted_bad_debts, P95),
         cvar_99 |-> expected_shortfall(sorted_bad_debts, P99),
         bad_debt_probability |-> Ratio(bad_debt_count * RatioScale, n),
         insolvency_probability |-> Ratio(insolvency_count * RatioScale, n),
         mean_bad_debt |-> Ratio(SumSeq(bad_debts), n),
         max_bad_debt |-> MaxSeq(bad_debts)]

\* the MonteCarloResult run_monte_carlo builds from the batch rs.  (The set
\* constructor binds the two vectors to their values, computed once.)
MonteCarloResult(mdl, mech, n, rs) ==
    CHOOSE r \in
        {MonteCarloResultOf(mdl, mech, n, rs, bad_debts, sorted_bad_debts) :
            bad_debts \in {BadDebts(rs)},
            sorted_bad_debts \in {SortAscending(BadDebts(rs))}} : TRUE

\* a mean that divides by one more than the number of values
MeanOverOneMore(values, scale) == (SumSeq(values) * scale) \div (Len(values) + 1)

\* the mean of the values, scaled by `scale`
MeanOf(values, scale) == (SumSeq(values) * scale) \div Len(values)

aggregate_results(rs) ==
    IF rs = <<>> THEN Panic
    ELSE LET n == 1..Len(rs)
         IN
         [mechanism |-> rs[1].mechanism,
          scenario |-> rs[1].scenario,
          runs |-> Len(rs),
          avg_cascade_depth |->
              MeanOf([i \in n |-> rs[i].cascade_depth], RatioScale),
          avg_liquidations |->
              MeanOf([i \in n |-> rs[i].total_liquidations], RatioScale),
          avg_bad_debt |-> MeanOf([i \in n |-> rs[i].bad_debt], 1),
          max_bad_debt |-> MaxSeq([i \in n |-> rs[i].bad_debt]),
          avg_blocks_to_stability |->
              MeanOf([i \in n |-> rs[i].blocks_to_stability], RatioScale),
          avg_price_drop_pct |-> MeanOf([i \in n |-> rs[i].price_drop_pct], 1),
          avg_profit_concentration |->
              MeanOf([i \in n |-> rs[i].profit_concentration], 1),
          avg_participation_rate |->
              MeanOf([i \in n |-> rs[i].participation_rate], 1),
          avg_unliquidated |->
              MeanOf([i \in n |-> rs[i].unliquidated_underwater], RatioScale),
          bad_debt_frequency |->
              (Cardinality({i \in n : rs[i].bad_debt > 0}) * RatioScale)
                  \div Len(rs)]

---------------------------------------------------------------------------
(* The statistics as functions of a batch: a batch of results is drawn,    *)
(* then the statistics of run_monte_carlo and aggregate_results are        *)
(* applied to it.                                                          *)

\* no CascadeSimulation exists: the variables of a run hold nothing
NoSimulation(mech, scen) ==
    /\ mechanism = mech
    /\ scenario = scen
    /\ cdps = <<>>
    /\ keepers = <<>>
    /\ eth_price = 0
    /\ block = 0
    /\ cascade_depth = 0
    /\ current_wave_liquidations = 0
    /\ total_liquidations = 0
    /\ total_bad_debt = 0
    /\ price_history = <<>>
    /\ liquidations_per_block = <<>>
    /\ consecutive_empty_blocks = 0
    /\ max_wave_liquidations = 0
    /\ liquidatable = <<>>
    /\ considered = 0
    /\ liquidations_this_block = 0
    /\ eth_sold_this_block = 0
    /\ pc = "idle"
    /\ result = NoResult

\* results of runs of the program at its full size (500 positions, 50
\* keepers, 100 blocks): without bad debt, with bad debt, and with bad debt
\* above the insolvency threshold
CalmResult(mech, scen) ==
    [mechanism |-> mech, scenario |-> scen, cascade_depth |-> 1,
     total_liquidations |-> 12, bad_debt |-> 0, blocks_to_stability |-> 17,
     final_price |-> 13000, price_drop_pct |-> 35000,
     profit_concentration |-> 400, participation_rate |-> 200,
     unliquidated_underwater |-> 0, max_liquidations_per_block |-> 10]

BadDebtResult(mech, scen) ==
    [mechanism |-> mech, scenario |-> scen, cascade_depth |-> 2,
     total_liquidations |-> 40, bad_debt |-> 52000, blocks_to_stability |-> 30,
     final_price |-> 9000, price_drop_pct |-> 55000,
     profit_concentration |-> 650, participation_rate |-> 100,
     unliquidated_underwater |-> 3, max_liquidations_per_block |-> 10]

InsolventResult(mech, scen) ==
    [mechanism |-> mech, scenario |-> scen, cascade_depth |-> 3,
     total_liquidations |-> 90, bad_debt |-> 1500000, blocks_to_stability |-> 100,
     final_price |-> 1000, price_drop_pct |-> 95000,
     profit_concentration |-> 900, participation_rate |-> 60,
     unliquidated_underwater |-> 70, max_liquidations_per_block |-> 10]

\* a batch of n results: the first `insolvent` of them insolvent, the last
\* `bad` of them with bad debt, the ones between without
Batch(mech, scen, n, insolvent, bad) ==
    [i \in 1..n |->
        IF i <= insolvent THEN InsolventResult(mech, scen)
        ELSE IF i > n - bad THEN BadDebtResult(mech, scen)
        ELSE CalmResult(mech, scen)]

\* the batch sizes drawn: the small ones, the first with a CVaR 95% tail, and
\* MaxBatch, the first with a CVaR 99% tail
BatchSizes == (0..SmallBatch) \cup {MidBatch, MaxBatch}

\* (at most MidBatch insolvent runs in a batch: enough to fill every tail)
BatchDraws(mech, scen) ==
    UNION {UNION {{Batch(mech, scen, n, insolvent, bad) : bad \in 0..(n - insolvent)} :
                  insolvent \in 0..Min(n, MidBatch)} :
           n \in BatchSizes}

\* a mapping that runs GARCH under Flash Crash
ScenarioOfGarchAsJumps(mdl) ==
    CASE mdl = "GBM" -> "VolatileCrash"
      [] mdl \in {"GARCH", "JumpDiffusion"} -> "FlashCrash"
      [] mdl \in {"HistoricalMar2020", "HistoricalMay2021", "HistoricalNov2022"} ->
            "BlackSwan"

\* a mapping that runs the last historical model under Flash Crash
ScenarioOfNovemberAsJumps(mdl) ==
    CASE mdl \in {"GBM", "GARCH"} -> "VolatileCrash"
      [] mdl \in {"JumpDiffusion", "HistoricalNov2022"} -> "FlashCrash"
      [] mdl \in {"HistoricalMar2020", "HistoricalMay2021"} -> "BlackSwan"

\* the scenario run_monte_carlo runs a price model under
ScenarioOf(mdl) ==
    CASE mdl \in {"GBM", "GARCH"} -> "VolatileCrash"
      [] mdl = "JumpDiffusion" -> "FlashCrash"
      [] mdl \in {"HistoricalMar2020", "HistoricalMay2021", "HistoricalNov2022"} ->
            "BlackSwan"

\* the (model, mechanism) arguments the statistics are computed for
StatsCallDraws == {<<"GBM", "KeeperPool">>}

StatsInit ==
    /\ \E call \in StatsCallDraws :
          /\ model = call[1]
          /\ NoSimulation(call[2], ScenarioOf(call[1]))
          /\ results \in BatchDraws(call[2], ScenarioOf(call[1]))
    /\ runs = Len(results)
    /\ outcome = <<>>
    /\ aggregate = NoResult
    /\ blocks = 0
    /\ prices = <<>>
    /\ current_vol = 0
    /\ mc_pc = "batch"

\* run_monte_carlo after run_cascade_simulation returned the batch
RunMonteCarloStatistics ==
    /\ mc_pc = "batch"
    /\ outcome = <<>>
    /\ outcome' = <<MonteCarloResult(model, mechanism, runs, results)>>
    /\ UNCHANGED <<runVars, model, runs, results, aggregate, blocks, prices,
                   current_vol, mc_pc>>

AggregateResults ==
    /\ mc_pc = "batch"
    /\ aggregate = NoResult
    /\ aggregate' = aggregate_results(results)
    /\ UNCHANGED <<runVars, model, runs, results, outcome, blocks, prices,
                   current_vol, mc_pc>>

StatsNext ==
    \/ RunMonteCarloStatistics
    \/ AggregateResults

StatsSpec == StatsInit /\ [][StatsNext]_vars

---------------------------------------------------------------------------
(* Claims                                                                  *)

BlocksExecuted == Len(liquidations_per_block)

\* a measure of what is left of the run: it falls with every step
RunMeasure ==
    LET perBlock == LIQUIDATIONS_PER_BLOCK + 3
        atLoop == 2 + (MAX_BLOCKS - block) * perBlock
    IN  CASE pc = "done" -> 0
          [] pc = "finish" -> 1
          [] pc = "loop" -> atLoop
          [] pc = "round" -> atLoop - 1
          [] pc = "liquidate" -> atLoop - 2 - considered

\* a step of run() can be taken: the loop goes on or has been left, and the
\* for loop can take its next position or the block can end (the round's
\* start and the result have no condition but their place in run())
StepPossible ==
    CASE pc = "loop" -> IF WhileCondition(block) THEN ENABLED ApplyPriceShock ELSE LoopExited
      [] pc = "liquidate" ->
            ENABLED (SkipPosition \/ LiquidateTraditional \/ LiquidateKeeperPool \/ EndBlock)
      [] pc \in {"round", "finish", "done"} -> TRUE

\* C1: every run terminates with a Run Result.  Until the result is returned
\* a step is always possible (no run fails), every step lowers a measure that
\* is never negative (no run loops forever), the loop body runs at most
\* MAX_BLOCKS times, and a finished run holds its result.
C1_RunTerminates ==
    /\ [](StepPossible)
    /\ [](RunMeasure >= 0 /\ BlocksExecuted <= MAX_BLOCKS /\ block <= MAX_BLOCKS)
    /\ [](pc = "done" => result # NoResult)
    /\ [][RunMeasure' < RunMeasure]_vars

\* a run that stopped at the block cap and returned its result
C1_Witness ==
    pc = "done" /\ BlocksExecuted = MAX_BLOCKS /\ result.blocks_to_stability = MAX_BLOCKS

\* the last n entries of s exist and are all zero
LastEmpty(s, n) == Len(s) >= n /\ \A i \in (Len(s) - n + 1)..Len(s) : s[i] = 0

\* the number of zero entries at the end of s
TrailingZeros(s) ==
    Cardinality({n \in 1..Len(s) : \A i \in (Len(s) - n + 1)..Len(s) : s[i] = 0})

\* C2 as stated: the run stops at the first block that ends with the 5 most
\* recent blocks empty and at least 10 blocks elapsed before it, so it never
\* goes on after such a block.
C2_ExitOnceTenElapsed ==
    (BlocksExecuted >= MinBlocks + 1 /\ LastEmpty(liquidations_per_block, StableBlocks))
        => pc \in {"finish", "done"}

\* C2, as the code has it: the run stops early exactly at the first block of index
\* above 10 (the 12th block or later) that ends with the 5 most recent blocks
\* empty; it stops for no other reason than that or the block cap; and the
\* count of consecutive empty blocks is the number of empty blocks since the
\* last liquidation-producing block, which resets it to 0.
C2_EarlyExit ==
    /\ consecutive_empty_blocks = TrailingZeros(liquidations_per_block)
    /\ pc = "finish" =>
          /\ BlocksExecuted = block + 1
          /\ block > MinBlocks
          /\ LastEmpty(liquidations_per_block, StableBlocks)
    /\ pc \notin {"finish", "done"} =>
          ~(BlocksExecuted - 1 > MinBlocks /\ LastEmpty(liquidations_per_block, StableBlocks))
    /\ pc = "done" =>
          \/ /\ result.blocks_to_stability = MAX_BLOCKS
             /\ BlocksExecuted = MAX_BLOCKS
          \/ /\ BlocksExecuted = result.blocks_to_stability + 1
             /\ result.blocks_to_stability > MinBlocks
             /\ LastEmpty(liquidations_per_block, StableBlocks)

\* an early exit later than the earliest one, delayed by a liquidation
C2_Witness ==
    pc = "finish" /\ block > MinBlocks + 1 /\ total_liquidations > 0

\* the waves (maximal runs of liquidation-producing blocks) that an empty block closed
ClosedWaves(s) == Cardinality({i \in 1..(Len(s) - 1) : s[i] > 0 /\ s[i + 1] = 0})

\* all the waves, the one still open at the end included
MaximalRuns(s) ==
    Cardinality({i \in 1..Len(s) : s[i] > 0 /\ (i = Len(s) \/ s[i + 1] = 0)})

\* C3 as stated: the result's cascade depth is the number of maximal runs of
\* liquidation-producing blocks.
C3_DepthCountsEveryWave ==
    pc = "done" => result.cascade_depth = MaximalRuns(liquidations_per_block)

\* C3, as the code has it: cascade depth is the number of maximal runs of
\* liquidation-producing blocks that were followed by an empty block; a wave
\* still open when the run stops at the block cap is not counted.
C3_DepthCountsClosedWaves ==
    /\ cascade_depth = ClosedWaves(liquidations_per_block)
    /\ pc = "done" => result.cascade_depth = ClosedWaves(liquidations_per_block)

\* a finished run with one closed wave and one wave open at the cap
C3_Witness ==
    /\ pc = "done"
    /\ result.cascade_depth = 1
    /\ liquidations_per_block[BlocksExecuted] > 0

\* C4: the current price and every entry of the price history are at least
\* the floor of 100, in every state of a run.
C4_PriceFloor ==
    /\ eth_price >= PriceFloor * PriceScale
    /\ \A i \in 1..Len(price_history) : price_history[i] >= PriceFloor * PriceScale

\* the floor has been applied to a shock that went below it
C4_Witness ==
    /\ BlocksExecuted >= 1
    /\ eth_price = PriceFloor * PriceScale
    /\ price_history[Len(price_history)] = PriceFloor * PriceScale

SnapshotSet == {liquidatable[n] : n \in 1..Len(liquidatable)}

LiquidatedCount == Cardinality({i \in 1..NUM_CDPS : cdps[i].is_liquidated})

\* a step of the for loop that executed a liquidation
ExecutedStep ==
    /\ InRound
    /\ pc' = "liquidate"
    /\ liquidations_this_block' = liquidations_this_block + 1

\* C5: a position is liquidated at most once.  A liquidated position keeps
\* its flag, collateral and debt for the rest of the run; no position's
\* collateral or debt ever changes; a position the for loop has yet to take
\* is never a liquidated one, and an executed liquidation turns the flag of
\* an unliquidated position; the liquidations counted are the flags set, so
\* total liquidations never exceed the pool size.
C5_LiquidatedOnce ==
    /\ [](/\ total_liquidations <= NUM_CDPS
          /\ LiquidatedCount =
                total_liquidations + (IF pc = "liquidate" THEN liquidations_this_block ELSE 0)
          /\ pc = "liquidate" =>
                /\ Cardinality(SnapshotSet) = Len(liquidatable)
                /\ \A n \in (considered + 1)..Len(liquidatable) :
                      ~cdps[liquidatable[n]].is_liquidated)
    /\ [][\A i \in 1..NUM_CDPS :
            /\ cdps[i].is_liquidated => cdps'[i] = cdps[i]
            /\ cdps'[i].collateral = cdps[i].collateral
            /\ cdps'[i].debt = cdps[i].debt]_vars
    /\ [][ExecutedStep =>
            /\ ~cdps[NextCdp].is_liquidated
            /\ cdps'[NextCdp].is_liquidated
            /\ \A i \in 1..NUM_CDPS \ {NextCdp} : cdps'[i] = cdps[i]]_vars

\* a later round leaves out a liquidated position whose ratio is below 1.5
\* and takes another position
C5_Witness ==
    /\ pc = "liquidate"
    /\ total_liquidations > 0
    /\ liquidatable # <<>>
    /\ \E i \in 1..NUM_CDPS :
          /\ cdps[i].is_liquidated
          /\ collateral_ratio(cdps[i], eth_price) < MIN_COLLATERAL_RATIO
          /\ i \notin SnapshotSet

\* C6: at most LIQUIDATIONS_PER_BLOCK positions are liquidated in a block:
\* the count of the running round, every entry of the per-block counts and
\* the result's peak are between 0 and the cap.
C6_BlockCap ==
    /\ liquidations_this_block \in 0..LIQUIDATIONS_PER_BLOCK
    /\ \A i \in 1..BlocksExecuted :
          liquidations_per_block[i] \in 0..LIQUIDATIONS_PER_BLOCK
    /\ pc = "done" =>
          /\ result.max_liquidations_per_block \in 0..LIQUIDATIONS_PER_BLOCK
          /\ \A i \in 1..BlocksExecuted :
                liquidations_per_block[i] <= result.max_liquidations_per_block

\* a run whose peak is the cap and that liquidated more positions than the cap
C6_Witness ==
    /\ pc = "done"
    /\ result.max_liquidations_per_block = LIQUIDATIONS_PER_BLOCK
    /\ result.total_liquidations > LIQUIDATIONS_PER_BLOCK

\* the for loop is at a position no keeper is willing to liquidate
NoWillingKeeper == InRound /\ NextParticipating = <<>>

\* C7: when no keeper is willing the position is skipped without error: the
\* step can be taken, it changes no position and no keeper, adds nothing to
\* the block's count or sold volume and leaves the run in the round; and in
\* every round the snapshot holds every unliquidated position whose ratio is
\* below 1.5, so the skipped position is liquidatable again.
C7_SkipWithoutWillingKeeper ==
    /\ [](NoWillingKeeper => ENABLED SkipPosition)
    /\ [][NoWillingKeeper =>
            /\ cdps' = cdps
            /\ keepers' = keepers
            /\ liquidations_this_block' = liquidations_this_block
            /\ eth_sold_this_block' = eth_sold_this_block
            /\ pc' = "liquidate"]_vars
    /\ [](pc = "liquidate" =>
            \A i \in 1..NUM_CDPS :
                (~cdps[i].is_liquidated
                    /\ collateral_ratio(cdps[i], eth_price) < MIN_COLLATERAL_RATIO)
                => i \in SnapshotSet)

\* a position liquidatable since block 0 has been skipped again in a later block
C7_Witness ==
    /\ pc = "liquidate"
    /\ block >= 1
    /\ considered >= 1
    /\ ~cdps[liquidatable[1]].is_liquidated
    /\ collateral_ratio(cdps[liquidatable[1]], price_history[2]) < MIN_COLLATERAL_RATIO

WillingSet == {NextParticipating[n] : n \in 1..Len(NextParticipating)}

Gain(k) == keepers'[k].total_profit - keepers[k].total_profit

Executions(k) == keepers'[k].liquidations - keepers[k].liquidations

\* C8: under Traditional every executed liquidation pays the full computed
\* profit to one keeper, a willing keeper whose priority score no willing
\* keeper exceeds, adds 1 to that keeper's liquidation counter and leaves
\* every other keeper as it was.
C8_TraditionalWinnerTakesAll ==
    [][(ExecutedStep /\ mechanism = "Traditional") =>
        \E w \in WillingSet :
            /\ \A k \in WillingSet : keepers[k].gas_priority <= keepers[w].gas_priority
            /\ Gain(w) = NextProfit
            /\ Executions(w) = 1
            /\ \A k \in 1..NUM_KEEPERS \ {w} : keepers'[k] = keepers[k]]_vars

\* a keeper that is not the last one and has the strictly highest score holds
\* all the profit paid so far
C8_Witness ==
    /\ mechanism = "Traditional"
    /\ \E w \in 1..(NUM_KEEPERS - 1) :
          /\ keepers[w].liquidations >= 1
          /\ keepers[w].total_profit > 0
          /\ \A k \in 1..NUM_KEEPERS \ {w} :
                /\ keepers[k].gas_priority < keepers[w].gas_priority
                /\ keepers[k].total_profit = 0
                /\ keepers[k].liquidations = 0

PriceAfterBlockZero == price_history[2]

\* the positions as constructed, the ranking of block 0 and the part of it
\* the round of block 0 visits
InitialCdps == [i \in 1..NUM_CDPS |-> [cdps[i] EXCEPT !.is_liquidated = FALSE]]

RankedAtBlockZero == RankedLiquidatable(InitialCdps, PriceAfterBlockZero)

FlashCrashPoolRunDone ==
    pc = "done" /\ scenario = "FlashCrash" /\ mechanism = "KeeperPool"

\* C10 as stated: a Flash Crash run under Keeper-Pool in which a position is
\* liquidatable after block 0's shock ends with total_liquidations > 0.
C10_LiquidatableImpliesLiquidations ==
    (FlashCrashPoolRunDone
        /\ \E i \in 1..NUM_CDPS :
              collateral_ratio(cdps[i], PriceAfterBlockZero) < MIN_COLLATERAL_RATIO)
    => result.total_liquidations > 0

\* C10: a Flash Crash run under Keeper-Pool ends with total_liquidations > 0
\* whenever one of the positions the round of block 0 visits (the
\* LIQUIDATIONS_PER_BLOCK lowest-ratio liquidatable ones) has a liquidation
\* profit above the Keeper-Pool threshold of $10.
C10_ProfitableImpliesLiquidations ==
    (FlashCrashPoolRunDone
        /\ \E n \in 1..Min(Len(RankedAtBlockZero), LIQUIDATIONS_PER_BLOCK) :
              liquidation_profit(InitialCdps[RankedAtBlockZero[n]], PriceAfterBlockZero)
                  > KeeperPoolThreshold * PriceScale)
    => result.total_liquidations > 0

\* a run whose round of block 0 visited a position keepers refuse and one
\* they take, and that ended with liquidations
C10_Witness ==
    /\ FlashCrashPoolRunDone
    /\ result.total_liquidations > 0
    /\ \E n \in 1..Min(Len(RankedAtBlockZero), LIQUIDATIONS_PER_BLOCK) :
          liquidation_profit(InitialCdps[RankedAtBlockZero[n]], PriceAfterBlockZero)
              > KeeperPoolThreshold * PriceScale
    /\ \E n \in 1..Min(Len(RankedAtBlockZero), LIQUIDATIONS_PER_BLOCK) :
          liquidation_profit(InitialCdps[RankedAtBlockZero[n]], PriceAfterBlockZero)
              <= KeeperPoolThreshold * PriceScale

---------------------------------------------------------------------------
(* C11: a run as a function of the outcomes of the random source           *)

\* the whole state of a run
RunState ==
    [mechanism |-> mechanism, scenario |-> scenario, cdps |-> cdps,
     keepers |-> keepers, eth_price |-> eth_price, block |-> block,
     cascade_depth |-> cascade_depth,
     current_wave_liquidations |-> current_wave_liquidations,
     total_liquidations |-> total_liquidations,
     total_bad_debt |-> total_bad_debt, price_history |-> price_history,
     liquidations_per_block |-> liquidations_per_block,
     consecutive_empty_blocks |-> consecutive_empty_blocks,
     max_wave_liquidations |-> max_wave_liquidations,
     liquidatable |-> liquidatable, considered |-> considered,
     liquidations_this_block |-> liquidations_this_block,
     eth_sold_this_block |-> eth_sold_this_block, pc |-> pc, result |-> result]

\* what the random source can return to one step: a sample of the normal
\* distribution, the outcome of the jump test, and a gen_range value that
\* is the first or the last index
RandomOutcomes ==
    [ret : ShockReturns \cup {-2}, jump : BOOLEAN, last : BOOLEAN]

\* the state new() builds from a mechanism, a scenario and the two pools
StartState(mech, scen, cs, ks) ==
    [mechanism |-> mech, scenario |-> scen, cdps |-> cs, keepers |-> ks,
     eth_price |-> INITIAL_ETH_PRICE * PriceScale, block |-> 0,
     cascade_depth |-> 0, current_wave_liquidations |-> 0,
     total_liquidations |-> 0, total_bad_debt |-> 0,
     price_history |-> <<INITIAL_ETH_PRICE * PriceScale>>,
     liquidations_per_block |-> <<>>, consecutive_empty_blocks |-> 0,
     max_wave_liquidations |-> 0, liquidatable |-> <<>>, considered |-> 0,
     liquidations_this_block |-> 0, eth_sold_this_block |-> 0,
     pc |-> "loop", result |-> NoResult]

ResultOf(s) ==
    [mechanism |-> s.mechanism,
     scenario |-> s.scenario,
     cascade_depth |-> s.cascade_depth,
     total_liquidations |-> s.total_liquidations,
     bad_debt |-> calculate_bad_debt(s.cdps, s.eth_price),
     blocks_to_stability |-> s.block,
     final_price |-> s.eth_price,
     price_drop_pct |-> PriceDropPct(s.eth_price),
     profit_concentration |-> ProfitConcentration(s.keepers),
     participation_rate |-> ParticipationRate(s.keepers),
     unliquidated_underwater |-> UnliquidatedUnderwater(s.cdps, s.eth_price),
     max_liquidations_per_block |-> MaxSeq(s.liquidations_per_block)]

\* one iteration of the for loop on state s with outcome d
ReplayPosition(s, d) ==
    LET idx == s.liquidatable[s.considered + 1]
        profit == liquidation_profit(s.cdps[idx], s.eth_price)
        willing == ParticipatingKeepers(s.keepers, profit, s.mechanism)
        executor == IF s.mechanism = "Traditional"
                    THEN TraditionalWinner(s.keepers, willing)
                    ELSE willing[IF d.last THEN Len(willing) ELSE 1]
        paid == IF s.mechanism = "Traditional"
                THEN [k \in 1..NUM_KEEPERS |-> IF k = executor THEN profit ELSE 0]
                ELSE [k \in 1..NUM_KEEPERS |->
                        IF \E n \in 1..Len(willing) : willing[n] = k
                        THEN PerKeeper(profit, Len(willing)) ELSE 0]
    IN  IF willing = <<>>
        THEN [s EXCEPT !.considered = @ + 1]
        ELSE [s EXCEPT
                !.keepers = [k \in 1..NUM_KEEPERS |->
                    [s.keepers[k] EXCEPT
                        !.total_profit = @ + paid[k],
                        !.liquidations = IF k = executor THEN @ + 1 ELSE @]],
                !.cdps[idx].is_liquidated = TRUE,
                !.eth_sold_this_block = @ + s.cdps[idx].collateral,
                !.liquidations_this_block = @ + 1,
                !.considered = @ + 1]

\* the end of a block on state s
ReplayEndBlock(s) ==
    LET n == s.liquidations_this_block
        empty == EmptyAfter(s.consecutive_empty_blocks, n)
        stop == Breaks(empty, s.block, n)
    IN  [s EXCEPT
            !.eth_price = ImpactedPrice(s.eth_price, s.eth_sold_this_block),
            !.liquidations_per_block = Append(@, n),
            !.total_liquidations = @ + n,
            !.current_wave_liquidations = IF n > 0 THEN @ + n ELSE 0,
            !.max_wave_liquidations = IF n > 0 THEN Max(@, n) ELSE @,
            !.cascade_depth = DepthAfter(@, s.current_wave_liquidations, n),
            !.consecutive_empty_blocks = empty,
            !.block = IF stop THEN @ ELSE @ + 1,
            !.pc = IF stop THEN "finish" ELSE "loop"]

\* the state that follows s when the random source returns d
Replay(s, d) ==
    CASE s.pc = "loop" /\ WhileCondition(s.block) ->
            LET ret == IF s.scenario = "VolatileCrash" THEN d.ret ELSE -2
                shocked == ClampPrice(ShockedPrice(s.scenario, s.block,
                                                    s.eth_price, ret, d.jump))
            IN  [s EXCEPT !.eth_price = shocked,
                          !.price_history = Append(@, shocked),
                          !.pc = "round"]
      [] s.pc = "round" ->
            [s EXCEPT !.liquidatable = RankedLiquidatable(s.cdps, s.eth_price),
                      !.considered = 0,
                      !.liquidations_this_block = 0,
                      !.eth_sold_this_block = 0,
                      !.pc = "liquidate"]
      [] s.pc = "liquidate" /\ s.considered < Taken(s.liquidatable) ->
            ReplayPosition(s, d)
      [] s.pc = "liquidate" /\ s.considered >= Taken(s.liquidatable) ->
            ReplayEndBlock(s)
      [] s.pc = "finish" \/ (s.pc = "loop" /\ ~WhileCondition(s.block)) ->
            [s EXCEPT !.total_bad_debt = calculate_bad_debt(s.cdps, s.eth_price),
                      !.result = ResultOf(s),
                      !.pc = "done"]
      [] s.pc = "done" -> s

RunStarts == pc = "loop" /\ block = 0

\* C11: a run is a function of the outcomes of its random source.  The
\* state a run starts in is the one new() builds from the mechanism, the
\* scenario and the two drawn pools; every step leads to the one state that
\* Replay computes from the state before it and the outcome the step drew;
\* so runs with the same mechanism, scenario and outcomes pass through the
\* same states, and the finished run's result is ResultOf the last of them.
C11_RunIsFunctionOfOutcomes ==
    /\ [](RunStarts => RunState = StartState(mechanism, scenario, cdps, keepers))
    /\ [][\E d \in RandomOutcomes : RunState' = Replay(RunState, d)]_vars
    /\ [][pc' = "done" => result' = ResultOf(RunState)]_vars

\* a finished Keeper-Pool run in a Volatile Crash that drew a gain in
\* block 0, the jump, and an executor that is not the first keeper
C11_Witness ==
    /\ pc = "done"
    /\ mechanism = "KeeperPool"
    /\ scenario = "VolatileCrash"
    /\ price_history[2] > price_history[1]
    /\ keepers[NUM_KEEPERS].liquidations > 0
    /\ result.total_liquidations >= 2

---------------------------------------------------------------------------
(* C12 - C14: the fields of the result                                     *)

\* C12: the cascade depth of a completed run is at least 0 and at most the
\* number of blocks the run executed (and so is the running count in every
\* state of the run).
C12_DepthWithinBlocks ==
    /\ cascade_depth \in 0..BlocksExecuted
    /\ pc = "done" => result.cascade_depth \in 0..BlocksExecuted

\* a completed run with two waves
C12_Witness ==
    pc = "done" /\ result.cascade_depth >= 2

TotalKeeperProfit == SumSeq([k \in 1..NUM_KEEPERS |-> keepers[k].total_profit])

\* C13: in a completed run the participation rate, the keepers with at
\* least one executed liquidation over NUM_KEEPERS, lies in [0,1]; the profit
\* concentration lies in [0,1] when the keepers' total profit is positive and
\* is 0 when it is 0.  Both are in thousandths.
C13_RatesWithinUnitInterval ==
    pc = "done" =>
        /\ result.participation_rate \in 0..RatioScale
        /\ result.participation_rate =
              (Cardinality({k \in 1..NUM_KEEPERS : keepers[k].liquidations >= 1})
                  * RatioScale) \div NUM_KEEPERS
        /\ TotalKeeperProfit > 0 => result.profit_concentration \in 0..RatioScale
        /\ TotalKeeperProfit = 0 => result.profit_concentration = 0

\* a completed run with both rates strictly inside the interval
C13_Witness ==
    /\ pc = "done"
    /\ TotalKeeperProfit > 0
    /\ result.profit_concentration \in 1..(RatioScale - 1)
    /\ result.participation_rate \in 1..(RatioScale - 1)

\* the shortfall of position i at price: debt - collateral x price for an
\* unliquidated position worth less than its debt, 0 for any other
Shortfall(i, price) ==
    IF ~cdps[i].is_liquidated /\ cdps[i].collateral * price < cdps[i].debt
    THEN cdps[i].debt - cdps[i].collateral * price
    ELSE 0

\* C14: the bad debt of the result is the sum of debt - collateral x final
\* price over the positions that are unliquidated and underwater at the final
\* price; liquidated positions and positions with ratio >= 1.0 add 0; so the
\* bad debt is positive exactly when the reported count of unliquidated
\* underwater positions is.
C14_BadDebtIsUnderwaterShortfall ==
    pc = "done" =>
        /\ result.bad_debt =
              SumSeq([i \in 1..NUM_CDPS |-> Shortfall(i, result.final_price)])
        /\ total_bad_debt = result.bad_debt
        /\ result.unliquidated_underwater =
              Cardinality({i \in 1..NUM_CDPS : Shortfall(i, result.final_price) > 0})
        /\ result.bad_debt > 0 <=> result.unliquidated_underwater > 0

\* a completed run with bad debt, whose final price is also below the debt
\* of a liquidated position
C14_Witness ==
    /\ pc = "done"
    /\ result.bad_debt > 0
    /\ \E i \in 1..NUM_CDPS :
          /\ cdps[i].is_liquidated
          /\ cdps[i].collateral * result.final_price < cdps[i].debt

-----------------------------------------------------------------------------
\* C15: for a non-empty batch, sorted ascending by run_monte_carlo, the
\* value at risk is monotone in the confidence level (99.9% >= 99% >= 95%),
\* and the conditional value at risk at 95% and at 99% is at least the value
\* at risk at the same level whenever the tail it averages is non-empty.
TailIsNonEmpty(n, p) == CeilDiv(n * p, RatioScale) < n

-----------------------------------------------------------------------------
\* C16: for a batch of exactly one run every statistic of the batch is that
\* run's value: mean and maximum bad debt, the value at risk at 95%, 99% and
\* 99.9% and the conditional value at risk at 95% and 99% all equal the run's
\* bad debt, and every mean of aggregate_results equals the run's field.
C16_SingleRunStatistics ==
    (mc_pc = "batch" /\ Len(results) = 1) =>
        LET run == results[1]
        IN  /\ outcome # <<>> =>
                  /\ outcome[1].mean_bad_debt = run.bad_debt
                  /\ outcome[1].max_bad_debt = run.bad_debt
                  /\ outcome[1].var_95 = run.bad_debt
                  /\ outcome[1].var_99 = run.bad_debt
                  /\ outcome[1].var_999 = run.bad_debt
                  /\ outcome[1].cvar_95 = run.bad_debt
                  /\ outcome[1].cvar_99 = run.bad_debt
            /\ aggregate # NoResult =>
                  /\ aggregate.avg_cascade_depth = run.cascade_depth * RatioScale
                  /\ aggregate.avg_liquidations = run.total_liquidations * RatioScale
                  /\ aggregate.avg_bad_debt = run.bad_debt
                  /\ aggregate.max_bad_debt = run.bad_debt
                  /\ aggregate.avg_blocks_to_stability =
                        run.blocks_to_stability * RatioScale
                  /\ aggregate.avg_price_drop_pct = run.price_drop_pct
                  /\ aggregate.avg_profit_concentration = run.profit_concentration
                  /\ aggregate.avg_participation_rate = run.participation_rate
                  /\ aggregate.avg_unliquidated =
                        run.unliquidated_underwater * RatioScale

\* both sets of statistics computed over one run that ended with bad debt
C16_Witness ==
    /\ mc_pc = "batch"
    /\ Len(results) = 1
    /\ results[1].bad_debt > 0
    /\ outcome # <<>>
    /\ aggregate # NoResult

-----------------------------------------------------------------------------
\* C17: statistics over zero runs are a defined default and not a fault: the
\* value at risk and conditional value at risk of an empty batch are 0, the
\* Monte Carlo result for run count 0 reports 0 for the mean bad debt, the
\* bad-debt probability and the insolvency probability, and the aggregate of
\* an empty batch completes and reports 0.
C17_EmptyBatchReportsZero ==
    (mc_pc = "batch" /\ results = <<>>) =>
        /\ outcome # <<>> =>
              /\ outcome[1].var_95 = 0
              /\ outcome[1].var_99 = 0
              /\ outcome[1].var_999 = 0
              /\ outcome[1].cvar_95 = 0
              /\ outcome[1].cvar_99 = 0
              /\ outcome[1].mean_bad_debt = 0
              /\ outcome[1].bad_debt_probability = 0
              /\ outcome[1].insolvency_probability = 0
        /\ aggregate # NoResult =>
              /\ aggregate # Panic
              /\ aggregate.avg_bad_debt = 0
              /\ aggregate.max_bad_debt = 0
              /\ aggregate.bad_debt_frequency = 0

\* C17, as the code has it: over zero runs the value at risk, the conditional
\* value at risk and the maximum are 0, the mean and the two probabilities
\* are 0/0 = NaN, and aggregate_results panics on results[0].
C17_EmptyBatchAsTheCodeHasIt ==
    (mc_pc = "batch" /\ results = <<>>) =>
        /\ outcome # <<>> =>
              /\ outcome[1].var_95 = 0
              /\ outcome[1].var_99 = 0
              /\ outcome[1].var_999 = 0
              /\ outcome[1].cvar_95 = 0
              /\ outcome[1].cvar_99 = 0
              /\ outcome[1].max_bad_debt = 0
              /\ outcome[1].mean_bad_debt = NaN
              /\ outcome[1].bad_debt_probability = NaN
              /\ outcome[1].insolvency_probability = NaN
        /\ aggregate # NoResult => aggregate = Panic

\* both sets of statistics were asked for over zero runs
C17_Witness ==
    /\ mc_pc = "batch"
    /\ results = <<>>
    /\ runs = 0
    /\ outcome # <<>>
    /\ outcome[1].mean_bad_debt = NaN
    /\ aggregate = Panic

-----------------------------------------------------------------------------
(* compare_mechanisms: run_monte_carlo for Traditional, then for KeeperPool, *)
(* each running its batch through run_cascade_simulation, one               *)
(* CascadeSimulation after the other.                                       *)

\* the position and keeper pools new() draws for the runs of a batch: all
\* positions from the same draw, and the first keeper fast or none
BatchCdpPools ==
    {[i \in 1..NUM_CDPS |-> CdpNew(draw[1], draw[2])] : draw \in CdpDraws}

BatchKeeperPools ==
    {[k \in 1..NUM_KEEPERS |->
         KeeperNew(10000, IF k = fast THEN 90 ELSE 10)] : fast \in 0..1}

\* the (model, runs) arguments of compare_mechanisms: up to MaxRuns runs per
\* mechanism, and at most one for the models run under Volatile Crash, whose
\* runs branch on their returns
CompareCallDraws ==
    {call \in PriceModel \X (0..MaxRuns) :
        ScenarioOf(call[1]) = "VolatileCrash" => call[2] <= 1}

\* the variables of a run when no CascadeSimulation exists
Dropped(mech, scen) ==
    [mechanism |-> mech, scenario |-> scen, cdps |-> <<>>, keepers |-> <<>>,
     eth_price |-> 0, block |-> 0, cascade_depth |-> 0,
     current_wave_liquidations |-> 0, total_liquidations |-> 0,
     total_bad_debt |-> 0, price_history |-> <<>>,
     liquidations_per_block |-> <<>>, consecutive_empty_blocks |-> 0,
     max_wave_liquidations |-> 0, liquidatable |-> <<>>, considered |-> 0,
     liquidations_this_block |-> 0, eth_sold_this_block |-> 0,
     pc |-> "idle", result |-> NoResult]

\* the variables of a run take the values of the record s
RunVarsBecome(s) ==
    /\ mechanism' = s.mechanism
    /\ scenario' = s.scenario
    /\ cdps' = s.cdps
    /\ keepers' = s.keepers
    /\ eth_price' = s.eth_price
    /\ block' = s.block
    /\ cascade_depth' = s.cascade_depth
    /\ current_wave_liquidations' = s.current_wave_liquidations
    /\ total_liquidations' = s.total_liquidations
    /\ total_bad_debt' = s.total_bad_debt
    /\ price_history' = s.price_history
    /\ liquidations_per_block' = s.liquidations_per_block
    /\ consecutive_empty_blocks' = s.consecutive_empty_blocks
    /\ max_wave_liquidations' = s.max_wave_liquidations
    /\ liquidatable' = s.liquidatable
    /\ considered' = s.considered
    /\ liquidations_this_block' = s.liquidations_this_block
    /\ eth_sold_this_block' = s.eth_sold_this_block
    /\ pc' = s.pc
    /\ result' = s.result

BatchInit ==
    /\ \E call \in CompareCallDraws :
          /\ model = call[1]
          /\ runs = call[2]
          /\ NoSimulation("Traditional", ScenarioOf(call[1]))
    /\ results = <<>>
    /\ outcome = <<>>
    /\ aggregate = NoResult
    /\ blocks = 0
    /\ prices = <<>>
    /\ current_vol = 0
    /\ mc_pc = "compare"

\* (0..runs): another run is due
MoreRuns == Len(results) < runs

\* the closure of run_cascade_simulation starting from where the last run
\* of the batch stopped: its price, and the keepers' capital
NewSimulationFromLastRun ==
    /\ mc_pc = "compare"
    /\ pc = "idle"
    /\ MoreRuns
    /\ \E cs \in BatchCdpPools, ks \in BatchKeeperPools :
          RunVarsBecome(
              [StartState(mechanism, scenario, cs, ks) EXCEPT
                  !.eth_price = IF results = <<>> THEN @
                                ELSE results[Len(results)].final_price])
    /\ UNCHANGED batchVars

\* the closure of run_cascade_simulation: CascadeSimulation::new
NewSimulation ==
    /\ mc_pc = "compare"
    /\ pc = "idle"
    /\ MoreRuns
    /\ \E cs \in BatchCdpPools, ks \in BatchKeeperPools :
          RunVarsBecome(StartState(mechanism, scenario, cs, ks))
    /\ UNCHANGED batchVars

\* the closure returns what run() returned: collect() appends it, and the
\* simulation is dropped
CollectResult ==
    /\ mc_pc = "compare"
    /\ pc = "done"
    /\ results' = Append(results, result)
    /\ RunVarsBecome(Dropped(mechanism, scenario))
    /\ UNCHANGED <<model, runs, outcome, aggregate, blocks, prices,
                   current_vol, mc_pc>>

\* run_cascade_simulation returned the batch: run_monte_carlo computes its
\* MonteCarloResult and returns it to compare_mechanisms, which goes on
\* with KeeperPool after Traditional and returns after KeeperPool
ReturnMonteCarloResult ==
    /\ mc_pc = "compare"
    /\ pc = "idle"
    /\ ~MoreRuns
    /\ outcome' = Append(outcome, MonteCarloResult(model, mechanism, runs, results))
    /\ results' = <<>>
    /\ mechanism' = "KeeperPool"
    /\ mc_pc' = IF mechanism = "Traditional" THEN "compare" ELSE "compared"
    /\ UNCHANGED <<scenario, cdps, keepers, eth_price, block, cascade_depth,
                   current_wave_liquidations, total_liquidations,
                   total_bad_debt, price_history, liquidations_per_block,
                   consecutive_empty_blocks, max_wave_liquidations,
                   liquidatable, considered, liquidations_this_block,
                   eth_sold_this_block, pc, result>>
    /\ UNCHANGED <<model, runs, aggregate, blocks, prices, current_vol>>

BatchNext ==
    \/ NewSimulation
    \/ ApplyPriceShock
    \/ BeginLiquidationRound
    \/ SkipPosition
    \/ LiquidateTraditional
    \/ LiquidateKeeperPool
    \/ EndBlock
    \/ Finish
    \/ CollectResult
    \/ ReturnMonteCarloResult

BatchSpec == BatchInit /\ [][BatchNext]_vars

-----------------------------------------------------------------------------
\* C18: a batch of N runs returns exactly N results, and the runs are
\* independent: every run starts from the fresh initial state (block 0, the
\* initial price, every position unliquidated, every keeper with zero profit
\* and zero liquidations, depth and counters 0) whatever the earlier runs
\* did; its steps are a function of its own state and random outcomes and
\* leave the collected results alone; the result collected is the run's own.
FreshStart(s) ==
    /\ s.block = 0
    /\ s.eth_price = INITIAL_ETH_PRICE * PriceScale
    /\ Len(s.cdps) = NUM_CDPS
    /\ \A i \in 1..NUM_CDPS : ~s.cdps[i].is_liquidated
    /\ Len(s.keepers) = NUM_KEEPERS
    /\ \A k \in 1..NUM_KEEPERS :
          s.keepers[k].total_profit = 0 /\ s.keepers[k].liquidations = 0
    /\ s.cascade_depth = 0
    /\ s.total_liquidations = 0
    /\ s.current_wave_liquidations = 0
    /\ s.consecutive_empty_blocks = 0
    /\ s.max_wave_liquidations = 0
    /\ s.total_bad_debt = 0
    /\ s.price_history = <<INITIAL_ETH_PRICE * PriceScale>>
    /\ s.liquidations_per_block = <<>>

C18_BatchOfIndependentRuns ==
    /\ [](/\ Len(results) <= runs
          /\ \A i \in 1..Len(outcome) :
                /\ Len(outcome[i].bad_debts) = runs
                /\ Len(outcome[i].price_drops) = runs
                /\ Len(outcome[i].liquidation_counts) = runs
                /\ Len(outcome[i].participation_rates) = runs)
    /\ [][(pc = "idle" /\ pc' # "idle") =>
              /\ Len(results) < runs
              /\ FreshStart(RunState')
              /\ RunState' = StartState(mechanism, scenario, cdps', keepers')
              /\ results' = results]_vars
    /\ [][pc \notin {"idle", "done"} =>
              /\ \E d \in RandomOutcomes : RunState' = Replay(RunState, d)
              /\ results' = results]_vars
    /\ [][pc' = "done" => result' = ResultOf(RunState)]_vars
    /\ [][pc = "done" => results' = Append(results, result)]_vars

\* the second run of a batch starts, after a first run that moved the price
\* and liquidated positions
C18_Witness ==
    /\ mc_pc = "compare"
    /\ runs = MaxRuns
    /\ Len(results) = 1
    /\ results[1].total_liquidations > 0
    /\ results[1].final_price < INITIAL_ETH_PRICE * PriceScale
    /\ RunStarts
    /\ FreshStart(RunState)

-----------------------------------------------------------------------------
\* C19: run_monte_carlo runs GBM and GARCH under Volatile Crash,
\* Jump-Diffusion under Flash Crash and the three historical models under
\* Black Swan; compare_mechanisms runs both mechanisms under that scenario
\* with the same run count, Traditional first, and returns the pair
\* (Traditional, KeeperPool).
C19_ScenarioMappingAndPairOrder ==
    mc_pc \in {"compare", "compared"} =>
        /\ model \in {"GBM", "GARCH"} => scenario = "VolatileCrash"
        /\ model = "JumpDiffusion" => scenario = "FlashCrash"
        /\ model \in {"HistoricalMar2020", "HistoricalMay2021",
                       "HistoricalNov2022"} => scenario = "BlackSwan"
        /\ \A i \in 1..Len(results) :
              /\ results[i].scenario = scenario
              /\ results[i].mechanism = mechanism
        /\ pc = "done" =>
              result.scenario = scenario /\ result.mechanism = mechanism
        /\ Len(outcome) = 0 => mechanism = "Traditional"
        /\ Len(outcome) >= 1 =>
              /\ mechanism = "KeeperPool"
              /\ outcome[1].mechanism = "Traditional"
              /\ outcome[1].model = model
              /\ outcome[1].runs = runs
              /\ Len(outcome[1].bad_debts) = runs
        /\ mc_pc = "compared" <=> Len(outcome) = 2
        /\ Len(outcome) <= 2
        /\ Len(outcome) = 2 =>
              /\ outcome[2].mechanism = "KeeperPool"
              /\ outcome[2].model = model
              /\ outcome[2].runs = runs
              /\ Len(outcome[2].bad_debts) = runs

\* compare_mechanisms returned the pair for a GARCH model, both halves from
\* a run each
C19_Witness ==
    /\ mc_pc = "compared"
    /\ model = "GARCH"
    /\ scenario = "VolatileCrash"
    /\ runs = 1
    /\ Len(outcome) = 2
    /\ outcome[1].liquidation_counts[1] > 0
    /\ outcome[2].liquidation_counts[1] > 0

-----------------------------------------------------------------------------
(* generate_price_path.  Prices are in units of 1/PriceScale dollar,        *)
(* volatilities and the config's rates in thousandths, returns in           *)
(* millionths, price factors in ten-thousandths.                            *)

ReturnScale == 1000 * 1000
FactorScale == 10 * RatioScale
PerCent == ReturnScale \div 100
PerMille == ReturnScale \div RatioScale
BlocksPerYear == 365 * 24 * 60 * 5

\* PricePathConfig::default: drift, jump_mean and jump_std, in thousandths
Drift == 0 - 500
JumpMean == 0 - 150
JumpStd == 100

\* dt.sqrt(), in millionths
SqrtDt == 617

\* samples of Normal(0, 1): one standard deviation either way and a draw far
\* in the lower tail; a step that is not sampled draws the mean
ZDraws == {0 - FarTail, -1, 1}

ZAt(step) == IF step < SampledSteps THEN ZDraws ELSE {0}

\* samples of the Poisson distribution of the number of jumps in a block
JumpCountAt(step) == IF step < SampledSteps THEN 0..MaxJumps ELSE {0}

\* samples of Normal(0, 1) behind a jump size: the mean and 3 deviations down
JumpZDraws == {-3, 0}

\* the 14 daily returns of the historical models, in percent
DayReturns(mdl) ==
    CASE mdl = "HistoricalMar2020" ->
            <<-8, -12, -25, -15, 5, -10, -8, 15, 8, -5, 3, -2, 10, 5>>
      [] mdl = "HistoricalMay2021" ->
            <<-5, -8, -12, -30, -10, 8, -15, -5, 10, 5, -3, 2, -5, 8>>
      [] mdl = "HistoricalNov2022" ->
            <<-3, -5, -15, -20, -10, -8, 5, -5, -3, 2, -2, 1, -1, 3>>

\* E.powf(x) as a factor, for a return x in millionths: the series to the
\* second order on small returns, the square of the half's power on others
RECURSIVE Exp(_)
Exp(x) ==
    IF x >= -20000 /\ x <= 20000
    THEN LET y == (x + 50) \div (ReturnScale \div FactorScale)
         IN  FactorScale + y + (y * y) \div (2 * FactorScale)
    ELSE CHOOSE f \in {(h * h) \div FactorScale : h \in {Exp(x \div 2)}} : TRUE

\* price * factor
Times(price, factor) ==
    price * (factor \div FactorScale)
        + (price * (factor % FactorScale)) \div FactorScale

\* (drift - 0.5 * vol^2) * dt + vol * dt.sqrt() * z, in millionths
DiffusionReturn(vol, z) ==
    ((Drift - (vol * vol) \div (2 * RatioScale)) * PerMille) \div BlocksPerYear
        + ((vol * SqrtDt) \div RatioScale) * z

\* the GARCH(1,1) update of current_vol with the sample z, clamped to
\* [0.5, 3.0]: a shock of 10 or more alone takes the root past 3.0
GarchVol(vol, z) ==
    LET shock == vol * z
        omega == (((Volatility * Volatility) \div RatioScale)
                     * (RatioScale - GarchAlpha - GarchBeta))
        next == omega + (GarchAlpha * ((shock * shock) \div RatioScale))
                      + GarchBeta * ((vol * vol) \div RatioScale)
    IN  IF shock <= 0 - 10 * RatioScale \/ shock >= 10 * RatioScale THEN MaxVol
        ELSE CHOOSE r \in MinVol..MaxVol :
                /\ r = MinVol \/ r * r <= next
                /\ r = MaxVol \/ (r + 1) * (r + 1) > next

\* the price of the last iteration
LastPrice == prices[Len(prices)]

\* a path that keeps a price below the floor
Unfloored(price) == price

\* price.max(50.0)
FloorPrice(price) == Max(price, PathFloor * PriceScale)

\* the number of iterations of the loop done
StepsDone == Len(prices) - 1

\* a loop over 0..=config.blocks
InLoopInclusive == mc_pc = "path" /\ StepsDone <= blocks

\* for _ in 0..config.blocks
InLoop == mc_pc = "path" /\ StepsDone < blocks

PathInit ==
    /\ model \in PriceModel
    /\ blocks \in 0..MaxSteps
    /\ prices = <<INITIAL_PRICE * PriceScale>>
    /\ current_vol = Volatility
    /\ mc_pc = "path"
    /\ NoSimulation("Traditional", ScenarioOf(model))
    /\ runs = 0
    /\ results = <<>>
    /\ outcome = <<>>
    /\ aggregate = NoResult

\* price = price.max(50.0); prices.push(price)
Push(price) ==
    /\ prices' = Append(prices, FloorPrice(price))
    /\ UNCHANGED <<runVars, model, runs, results, outcome, aggregate, blocks, mc_pc>>

StepGBM ==
    /\ InLoop
    /\ model = "GBM"
    /\ \E z \in ZAt(StepsDone) :
          Push(Times(LastPrice, Exp(DiffusionReturn(Volatility, z))))
    /\ UNCHANGED current_vol

StepJumpDiffusion ==
    /\ InLoop
    /\ model = "JumpDiffusion"
    /\ \E z \in ZAt(StepsDone), num_jumps \in JumpCountAt(StepsDone) :
          \E jump_z \in [1..num_jumps -> JumpZDraws] :
              LET jump_component ==
                      SumSeq([j \in 1..num_jumps |->
                                 (JumpMean + jump_z[j] * JumpStd) * PerMille])
              IN  Push(Times(LastPrice,
                             Exp(DiffusionReturn(Volatility, z) + jump_component)))
    /\ UNCHANGED current_vol

StepGARCH ==
    /\ InLoop
    /\ model = "GARCH"
    /\ \E z \in ZAt(StepsDone) :
          /\ current_vol' = GarchVol(current_vol, z)
          /\ Push(Times(LastPrice, Exp(DiffusionReturn(GarchVol(current_vol, z), z))))

StepHistorical ==
    /\ InLoop
    /\ model \in {"HistoricalMar2020", "HistoricalMay2021", "HistoricalNov2022"}
    /\ \E z \in ZAt(StepsDone) :
          LET day_returns == DayReturns(model)
              block_idx == Len(prices) % (Len(day_returns) * 10)
              day_idx == block_idx \div 10
              ret == (day_returns[day_idx + 1] * PerCent) \div 10
                         + z * NoisePct * PerCent
          IN  Push(Times(LastPrice,
                         FactorScale + ret \div (ReturnScale \div FactorScale)))
    /\ UNCHANGED current_vol

\* the loop is over: the path is returned
ReturnPath ==
    /\ mc_pc = "path"
    /\ ~InLoop
    /\ mc_pc' = "path_done"
    /\ UNCHANGED <<runVars, model, runs, results, outcome, aggregate, blocks,
                   prices, current_vol>>

PathNext ==
    \/ StepGBM
    \/ StepJumpDiffusion
    \/ StepGARCH
    \/ StepHistorical
    \/ ReturnPath

PathSpec == PathInit /\ [][PathNext]_vars

-----------------------------------------------------------------------------
\* C20: for every price model and every step count the generated path has
\* exactly steps + 1 elements, its first element is the initial price 2000,
\* and every element after the first is at least the floor 50.
C20_PathLengthStartAndFloor ==
    mc_pc \in {"path", "path_done"} =>
        /\ Len(prices) <= blocks + 1
        /\ mc_pc = "path_done" => Len(prices) = blocks + 1
        /\ prices[1] = 2000 * PriceScale
        /\ \A i \in 2..Len(prices) : prices[i] >= 50 * PriceScale

\* a returned path of MaxSteps steps that was held at the floor and left it
\* again
C20_Witness ==
    /\ mc_pc = "path_done"
    /\ blocks = MaxSteps
    /\ \E i \in 2..(Len(prices) - 1) :
          /\ prices[i] = 50 * PriceScale
          /\ prices[i + 1] > prices[i]

-----------------------------------------------------------------------------
\* the prices the run has seen
PricesSeen == {price_history[n] : n \in 1..Len(price_history)} \cup {eth_price}

\* C21: for any position and any price, underwater (collateral ratio < 1.0)
\* implies liquidatable, and with collateral and debt fixed the collateral
\* ratio never decreases when the price increases.
C21_UnderwaterImpliesLiquidatable ==
    pc \notin {"idle"} =>
        \A i \in 1..Len(cdps) :
            /\ \A p \in PricesSeen :
                  is_underwater(cdps[i], p) => is_liquidatable(cdps[i], p)
            /\ \A p, q \in PricesSeen :
                  p <= q => collateral_ratio(cdps[i], p) <= collateral_ratio(cdps[i], q)

\* C21, as the code has it: an underwater position that has not been
\* liquidated is liquidatable (a liquidated one never is), and the collateral
\* ratio never decreases when the price increases.
C21_UnliquidatedUnderwaterIsLiquidatable ==
    pc \notin {"idle"} =>
        \A i \in 1..Len(cdps) :
            /\ \A p \in PricesSeen :
                  /\ (is_underwater(cdps[i], p) /\ ~cdps[i].is_liquidated)
                        => is_liquidatable(cdps[i], p)
                  /\ cdps[i].is_liquidated => ~is_liquidatable(cdps[i], p)
            /\ \A p, q \in PricesSeen :
                  p <= q => collateral_ratio(cdps[i], p) <= collateral_ratio(cdps[i], q)

\* a finished run with one position underwater and unliquidated and another
\* underwater and liquidated, whose ratio was higher at an earlier price
C21_Witness ==
    /\ pc = "done"
    /\ \E i, j \in 1..NUM_CDPS :
          /\ is_underwater(cdps[i], eth_price) /\ ~cdps[i].is_liquidated
          /\ is_underwater(cdps[j], eth_price) /\ cdps[j].is_liquidated
          /\ \E p \in PricesSeen :
                collateral_ratio(cdps[i], p) > collateral_ratio(cdps[i], eth_price)

-----------------------------------------------------------------------------
(* C22: the Traditional run from the pools of a Keeper-Pool run            *)

\* the keepers as new() built them
InitialKeepers ==
    [k \in 1..NUM_KEEPERS |->
        [keepers[k] EXCEPT !.total_profit = 0, !.liquidations = 0]]

\* outcomes of the random source for a run that draws none
NoDraw == [ret |-> -2, jump |-> FALSE, last |-> FALSE]

\* run() from state s to its end, for a run that reads no random outcome
RECURSIVE RunToEnd(_)
RunToEnd(s) ==
    IF s.pc = "done" THEN s
    ELSE CHOOSE end \in {RunToEnd(t) : t \in {Replay(s, NoDraw)}} : TRUE

\* the result of the Traditional run under Flash Crash from the pools the
\* current run started from
TraditionalFlashCrashResult ==
    CHOOSE r \in {RunToEnd(s).result :
                     s \in {StartState("Traditional", "FlashCrash",
                                       InitialCdps, InitialKeepers)}} : TRUE

\* C22: from the same position and keeper pools under Flash Crash, the
\* participation rate of the Keeper-Pool run is at least that of the
\* Traditional run.
C22_PoolParticipationAtLeastTraditional ==
    FlashCrashPoolRunDone =>
        result.participation_rate >= TraditionalFlashCrashResult.participation_rate

\* a Keeper-Pool run in which more keepers executed than the one keeper of
\* the Traditional run from the same pools
C22_Witness ==
    /\ FlashCrashPoolRunDone
    /\ TraditionalFlashCrashResult.participation_rate > 0
    /\ result.participation_rate > TraditionalFlashCrashResult.participation_rate

-----------------------------------------------------------------------------
\* C23: the blocks-elapsed value of the result equals the number of
\* per-block steps the run executed (the length of the per-block liquidation
\* counts), both when the run stops at the block cap and when it stops
\* through the stability early exit.
C23_BlocksElapsedIsStepsExecuted ==
    pc = "done" => result.blocks_to_stability = Len(liquidations_per_block)

\* C23, as the code has it: a run that reaches the block cap reports the
\* number of blocks it executed; a run that breaks out early reports one
\* less, the index of its last block, because break skips the increment.
C23_BlocksElapsedAsTheCodeHasIt ==
    pc = "done" =>
        /\ result.blocks_to_stability = block
        /\ block = MAX_BLOCKS => result.blocks_to_stability = Len(liquidations_per_block)
        /\ block < MAX_BLOCKS =>
              /\ result.blocks_to_stability = Len(liquidations_per_block) - 1
              /\ LastEmpty(liquidations_per_block, StableBlocks)

\* a run that left through the early exit
C23_Witness ==
    /\ pc = "done"
    /\ block < MAX_BLOCKS
    /\ result.blocks_to_stability = Len(liquidations_per_block) - 1
    /\ result.total_liquidations > 0

-----------------------------------------------------------------------------
\* the positions the for loop has been through in this block
ConsideredSet == {liquidatable[n] : n \in 1..considered}

\* C24: within a block the liquidatable positions are processed in ascending
\* order of collateral ratio at the post-shock price: the snapshot is
\* ascending, and whenever a position is liquidated, every unliquidated
\* liquidatable position with a strictly lower ratio was considered earlier
\* in the same block (liquidated or skipped for lack of a willing keeper).
C24_AscendingRatioOrder ==
    /\ [](pc = "liquidate" =>
            \A n, m \in 1..Len(liquidatable) :
                n < m => collateral_ratio(cdps[liquidatable[n]], eth_price)
                            <= collateral_ratio(cdps[liquidatable[m]], eth_price))
    /\ [][ExecutedStep =>
            \A j \in 1..NUM_CDPS :
                (/\ is_liquidatable(cdps[j], eth_price)
                 /\ collateral_ratio(cdps[j], eth_price)
                        < collateral_ratio(cdps[NextCdp], eth_price))
                    => j \in ConsideredSet]_vars

\* a position is about to be liquidated after a position of strictly lower
\* ratio was skipped in the same block
C24_Witness ==
    /\ InRound
    /\ NextParticipating # <<>>
    /\ \E j \in ConsideredSet :
          /\ ~cdps[j].is_liquidated
          /\ collateral_ratio(cdps[j], eth_price)
                < collateral_ratio(cdps[NextCdp], eth_price)

-----------------------------------------------------------------------------
(* apply_price_shock as a function of the scenario, the block and the      *)
(* price: a simulation is drawn at the start of any block, and the shock    *)
(* is applied to it.                                                        *)

\* prices a run can be at when a block starts, in dollars
ShockPriceDraws == {2000, 1634, 1400, 1000, 600}

ShockInit ==
    /\ mechanism \in LiquidationMechanism
    /\ scenario \in PriceScenario
    /\ block \in 0..ShockBlocks
    /\ eth_price \in {p * PriceScale :
                         p \in IF block = 0 THEN {INITIAL_ETH_PRICE}
                                ELSE ShockPriceDraws}
    /\ price_history = <<eth_price>>
    /\ cdps = <<>>
    /\ keepers = <<>>
    /\ cascade_depth = 0
    /\ current_wave_liquidations = 0
    /\ total_liquidations = 0
    /\ total_bad_debt = 0
    /\ liquidations_per_block = <<>>
    /\ consecutive_empty_blocks = 0
    /\ max_wave_liquidations = 0
    /\ liquidatable = <<>>
    /\ considered = 0
    /\ liquidations_this_block = 0
    /\ eth_sold_this_block = 0
    /\ pc = "shock"
    /\ result = NoResult
    /\ NoBatch

\* apply_price_shock, called on the simulation drawn
ApplyPriceShockOnce ==
    /\ pc = "shock"
    /\ \E ret \in ReturnDraws(scenario, block), jump \in JumpDraws(scenario, block) :
          LET shocked == ClampPrice(ShockedPrice(scenario, block, eth_price, ret, jump))
          IN  /\ eth_price' = shocked
              /\ price_history' = Append(price_history, shocked)
    /\ pc' = "shocked"
    /\ UNCHANGED <<mechanism, scenario, cdps, keepers, block, cascade_depth,
                   current_wave_liquidations, total_liquidations, total_bad_debt,
                   liquidations_per_block, consecutive_empty_blocks,
                   max_wave_liquidations, liquidatable, considered,
                   liquidations_this_block, eth_sold_this_block, result>>
    /\ UNCHANGED batchVars

ShockNext == ApplyPriceShockOnce

ShockSpec == ShockInit /\ [][ShockNext]_vars

\* the price before the shock that was applied
PriceBeforeShock == price_history[Len(price_history) - 1]

\* C25: the deterministic scenarios shock the price only in their scheduled
\* blocks: Gradual Decline multiplies it by 0.98 in blocks 0-9 and leaves it
\* from block 10 on; Flash Crash multiplies it by 0.70 in block 0 and leaves
\* it afterwards; Black Swan multiplies it by 0.50 in block 0, by 0.99 in
\* blocks 1-19, and leaves it from block 20 on.
C25_ScheduledShocks ==
    pc = "shocked" =>
        /\ scenario = "GradualDecline" =>
              eth_price = IF block \in 0..9 THEN (PriceBeforeShock * 98) \div 100
                          ELSE PriceBeforeShock
        /\ scenario = "FlashCrash" =>
              eth_price = IF block = 0 THEN (PriceBeforeShock * 70) \div 100
                          ELSE PriceBeforeShock
        /\ scenario = "BlackSwan" =>
              eth_price = IF block = 0 THEN (PriceBeforeShock * 50) \div 100
                          ELSE IF block \in 1..19 THEN (PriceBeforeShock * 99) \div 100
                          ELSE PriceBeforeShock

\* the first block of a Black Swan without a shock
C25_Witness ==
    /\ pc = "shocked"
    /\ scenario = "BlackSwan"
    /\ block = 20
    /\ eth_price = PriceBeforeShock
    /\ eth_price < INITIAL_ETH_PRICE * PriceScale

-----------------------------------------------------------------------------
(* C26: value at risk and conditional value at risk by rank                *)

\* round((n - 1) * p), clamped to n - 1: the integer within one half of
\* (n - 1) * p, halves going up
NearestRank(n, p) ==
    LET k == CHOOSE r \in 0..n :
                 /\ 2 * RatioScale * r <= 2 * (n - 1) * p + RatioScale
                 /\ 2 * (n - 1) * p + RatioScale < 2 * RatioScale * (r + 1)
    IN  IF k > n - 1 THEN n - 1 ELSE k

\* the least integer that is at least n * p
TailStart(n, p) ==
    CHOOSE c \in 0..n : c * RatioScale >= n * p /\ (c - 1) * RatioScale < n * p

\* v is the element at 0-based index k of the values in ascending order
IsAtRank(values, k, v) ==
    /\ Cardinality({i \in 1..Len(values) : values[i] < v}) <= k
    /\ k < Cardinality({i \in 1..Len(values) : values[i] <= v})

\* m is the mean (rounded down) of the elements at 0-based indices c..n-1
\* of the values in ascending order, or the last element when there is none
IsTailMean(values, c, m) ==
    LET n == Len(values)
    IN  IF c >= n THEN IsAtRank(values, n - 1, m)
        ELSE \E sorted \in {SortAscending(values)} :
                /\ \A i \in 1..n : IsAtRank(values, i - 1, sorted[i])
                /\ \E sum \in {SumSeq(SubSeq(sorted, c + 1, n))} :
                      m * (n - c) <= sum /\ sum < (m + 1) * (n - c)

\* C26: for a non-empty batch of n values in ascending order and confidence
\* p, the value at risk is the element at index min(round((n-1) p), n-1), a
\* value of the batch, and the conditional value at risk is the mean of the
\* elements at indices ceil(n p) .. n-1, or the last element when that range
\* is empty.
C26_VarAndCvarByRank ==
    (mc_pc = "batch" /\ outcome # <<>> /\ results # <<>>) =>
        \E r \in {outcome[1]}, values \in {BadDebts(results)} :
            /\ IsAtRank(values, NearestRank(r.runs, P95), r.var_95)
            /\ IsAtRank(values, NearestRank(r.runs, P99), r.var_99)
            /\ IsAtRank(values, NearestRank(r.runs, P999), r.var_999)
            /\ {r.var_95, r.var_99, r.var_999} \subseteq
                    {values[i] : i \in 1..Len(values)}
            /\ IsTailMean(values, TailStart(r.runs, P95), r.cvar_95)
            /\ IsTailMean(values, TailStart(r.runs, P99), r.cvar_99)

\* a batch of MaxBatch runs in which the 99.9% rank rounds up to the last
\* element, above the 99% one, and the 95% tail mean falls between elements
C26_Witness ==
    /\ mc_pc = "batch"
    /\ outcome # <<>>
    /\ outcome[1].runs = MaxBatch
    /\ outcome[1].var_999 > outcome[1].var_99
    /\ outcome[1].cvar_95 > outcome[1].var_95
    /\ outcome[1].cvar_95 < outcome[1].var_999
    /\ outcome[1].cvar_95 \notin {results[i].bad_debt : i \in 1..Len(results)}

-----------------------------------------------------------------------------
(* C27: the day of the return table behind each step of a historical path  *)

Historical == {"HistoricalMar2020", "HistoricalMay2021", "HistoricalNov2022"}

\* step i of the path (the first is step 0) applied the return of table day
\* `day`, with some sample of the noise
StepAppliedDay(i, day) ==
    \E z \in ZAt(i) :
        prices[i + 2] =
            Max(Times(prices[i + 1],
                      FactorScale
                          + ((DayReturns(model)[day + 1] * PerCent) \div 10
                                + z * NoisePct * PerCent) \div 100),
                50 * PriceScale)

\* C27: in each historical model every day of the 14-entry table is applied
\* to exactly 10 consecutive steps, beginning with day 0 for the first 10
\* steps of the path, and the table restarts at day 0 after 140 steps: step
\* i applies day (i div 10) mod 14.
C27_TenStepsPerDayFromDayZero ==
    (mc_pc \in {"path", "path_done"} /\ model \in Historical) =>
        \A i \in 0..(Len(prices) - 2) : StepAppliedDay(i, (i \div 10) % 14)

\* C27, as the code has it: the day is taken from prices.len(), which is 1
\* at the first step, so step i applies day ((i + 1) mod 140) div 10: day 0
\* for the first 9 steps only, and every change of day one step early.
C27_DayFromPathLength ==
    (mc_pc \in {"path", "path_done"} /\ model \in Historical) =>
        \A i \in 0..(Len(prices) - 2) : StepAppliedDay(i, ((i + 1) % 140) \div 10)

\* a returned historical path whose tenth step applied day 1 and not day 0
C27_Witness ==
    /\ mc_pc = "path_done"
    /\ model \in Historical
    /\ Len(prices) > 10
    /\ StepAppliedDay(9, 1)
    /\ ~StepAppliedDay(9, 0)

-----------------------------------------------------------------------------
(* C28: one price per block, and the price impact at its end               *)

\* the price apply_price_shock left
PostShockPrice == price_history[Len(price_history)]

\* the positions executed in this block: considered, and liquidated
ExecutedThisBlock == {j \in ConsideredSet : cdps[j].is_liquidated}

\* the pool as it was when the block's round began
CdpsAtBlockStart ==
    [i \in 1..NUM_CDPS |->
        IF i \in ConsideredSet THEN [cdps[i] EXCEPT !.is_liquidated = FALSE]
        ELSE cdps[i]]

\* the summed collateral of the positions executed in this block
CollateralExecuted ==
    SumSeq([i \in 1..NUM_CDPS |->
               IF i \in ExecutedThisBlock THEN cdps[i].collateral ELSE 0])

\* the liquidation profit of position i at the post-shock price
ProfitAtPostShock(i) ==
    Max(((cdps[i].collateral * PostShockPrice - cdps[i].debt) * 13) \div 100, 0)

\* C28: within a block the ranking and every liquidation's profit are
\* computed at the same post-shock price; the price impact is applied once
\* per block, after the block's last liquidation, as price x (1 - 0.0001 x
\* summed collateral of the positions executed in the block) floored at 100;
\* a block without an executed liquidation leaves the post-shock price.
C28_OnePricePerBlockImpactAtEnd ==
    /\ [](pc \in {"round", "liquidate"} =>
            /\ eth_price = PostShockPrice
            /\ pc = "liquidate" =>
                  liquidatable = RankedLiquidatable(CdpsAtBlockStart, PostShockPrice))
    /\ [][pc' = "liquidate" => eth_price' = eth_price]_vars
    /\ [][ExecutedStep =>
            IF mechanism = "Traditional"
            THEN SumSeq([k \in 1..NUM_KEEPERS |-> Gain(k)])
                    = ProfitAtPostShock(NextCdp)
            ELSE \A k \in 1..NUM_KEEPERS :
                    Gain(k) = ((ProfitAtPostShock(NextCdp) * 70) \div 100)
                                 \div NUM_KEEPERS]_vars
    /\ [][(pc = "liquidate" /\ pc' # "liquidate") =>
            /\ eth_price' =
                  Max((eth_price * (10000 - CollateralExecuted)) \div 10000,
                      100 * PriceScale)
            /\ liquidations_this_block = 0 => eth_price' = eth_price]_vars

\* the end of a block in which one position was skipped and another
\* executed, whose collateral moves the price
C28_Witness ==
    /\ pc = "liquidate"
    /\ considered >= Taken(liquidatable)
    /\ liquidations_this_block >= 1
    /\ liquidations_this_block < considered
    /\ (eth_price * (10000 - CollateralExecuted)) \div 10000 < eth_price

-----------------------------------------------------------------------------
(* C29: what it takes for a position to be liquidated                      *)

\* the mechanism's threshold of 50 or 10 dollars
ThresholdOfMechanism == (IF mechanism = "Traditional" THEN 50 ELSE 10) * PriceScale

\* C29: a position is liquidated only when its liquidation profit at the
\* block's post-shock price strictly exceeds the mechanism's threshold, 50
\* for Traditional and 10 for Keeper-Pool, a profit exactly at the threshold
\* not being enough; hence no position is liquidated while underwater, an
\* underwater position's profit being 0.
C29_LiquidatedOnlyAboveThreshold ==
    /\ [][ExecutedStep =>
            /\ ProfitAtPostShock(NextCdp) > ThresholdOfMechanism
            /\ cdps[NextCdp].collateral * PostShockPrice >= cdps[NextCdp].debt]_vars
    /\ [](\A k \in 1..NUM_KEEPERS :
            ~willing_to_liquidate(keepers[k], ThresholdOfMechanism, mechanism))
    /\ [](\A i \in 1..NUM_CDPS :
            cdps[i].collateral * eth_price < cdps[i].debt =>
                liquidation_profit(cdps[i], eth_price) = 0)

\* a block in which an underwater position was passed over and a position
\* with profit above the threshold was liquidated
C29_Witness ==
    /\ pc = "liquidate"
    /\ \E j \in ConsideredSet \ ExecutedThisBlock :
          cdps[j].collateral * eth_price < cdps[j].debt
    /\ \E j \in ExecutedThisBlock :
          ProfitAtPostShock(j) > ThresholdOfMechanism

-----------------------------------------------------------------------------
(* C30: the slots of a block                                               *)

\* the positions that were liquidatable when the block's round began
LiquidatableAtBlockStart ==
    {i \in 1..NUM_CDPS : is_liquidatable(CdpsAtBlockStart[i], PostShockPrice)}

\* the rank of position i among them, lowest ratio first, equal ratios in
\* the order of the pool
RankOf(i) ==
    1 + Cardinality({j \in LiquidatableAtBlockStart :
            \/ collateral_ratio(cdps[j], PostShockPrice)
                  < collateral_ratio(cdps[i], PostShockPrice)
            \/ /\ collateral_ratio(cdps[j], PostShockPrice)
                    = collateral_ratio(cdps[i], PostShockPrice)
               /\ j < i})

\* the positions a block considers: the lowest-ratio liquidatable ones, as
\* many as the limit allows
LowestRanked ==
    {i \in LiquidatableAtBlockStart : RankOf(i) <= LIQUIDATIONS_PER_BLOCK}

\* C30: only the lowest-ratio liquidatable positions up to the limit (10 in
\* the program) are considered in a block, and a position skipped for lack
\* of a willing keeper still uses up one of those slots: a position ranked
\* beyond the limit is never liquidated in that block, so when the
\* lowest-ratio positions all have profit at or below the threshold the
\* block has zero liquidations even if other liquidatable positions with
\* sufficient profit exist.
C30_SkippedPositionsUseSlots ==
    /\ [](pc = "liquidate" =>
            /\ ConsideredSet \subseteq LowestRanked
            /\ ExecutedThisBlock \subseteq LowestRanked
            /\ considered >= Taken(liquidatable) => ConsideredSet = LowestRanked
            /\ (\A i \in LowestRanked : ProfitAtPostShock(i) <= ThresholdOfMechanism)
                  => liquidations_this_block = 0)
    /\ [][ExecutedStep => RankOf(NextCdp) <= LIQUIDATIONS_PER_BLOCK]_vars
    /\ [][(InRound /\ pc' = "liquidate"
             /\ liquidations_this_block' = liquidations_this_block) =>
            /\ considered' = considered + 1
            /\ considered' <= LIQUIDATIONS_PER_BLOCK]_vars

\* the end of a block without a liquidation, every slot spent on a position
\* no keeper would take, while a liquidatable position ranked beyond the
\* limit has sufficient profit
C30_Witness ==
    /\ pc = "liquidate"
    /\ considered = LIQUIDATIONS_PER_BLOCK
    /\ liquidations_this_block = 0
    /\ \E i \in LiquidatableAtBlockStart :
          /\ RankOf(i) > LIQUIDATIONS_PER_BLOCK
          /\ ProfitAtPostShock(i) > ThresholdOfMechanism

-----------------------------------------------------------------------------
(* C31: willingness ignores the keeper; one keeper wins a Traditional run  *)

\* the keepers a run has credited with a liquidation or a profit
Credited == {k \in 1..NUM_KEEPERS :
                keepers[k].liquidations > 0 \/ keepers[k].total_profit > 0}

\* C31: willingness does not depend on the keeper, so the willing set for a
\* position is either all keepers or empty; therefore in a Traditional run
\* every executed liquidation is credited to one and the same keeper, one
\* with the highest priority score, the participation rate is 0 or one
\* keeper's share (1/50 in the program), and the profit concentration is
\* exactly 1 whenever the total profit is positive.
C31_OneWinnerPerTraditionalRun ==
    /\ [](InRound => WillingSet \in {{}, 1..NUM_KEEPERS})
    /\ [](mechanism = "Traditional" =>
            /\ Cardinality(Credited) <= 1
            /\ \A w \in Credited :
                  /\ \A k \in 1..NUM_KEEPERS :
                        keepers[k].gas_priority <= keepers[w].gas_priority
                  /\ keepers[w].liquidations =
                        total_liquidations
                          + (IF pc = "liquidate" THEN liquidations_this_block ELSE 0))
    /\ []((pc = "done" /\ mechanism = "Traditional") =>
            /\ result.participation_rate \in {0, RatioScale \div NUM_KEEPERS}
            /\ result.participation_rate = 0 <=> result.total_liquidations = 0
            /\ SumSeq([k \in 1..NUM_KEEPERS |-> keepers[k].total_profit]) > 0
                  => result.profit_concentration = RatioScale)

\* a finished Traditional run with several liquidations, all of them one
\* keeper's
C31_Witness ==
    /\ pc = "done"
    /\ mechanism = "Traditional"
    /\ result.total_liquidations >= 2
    /\ \E w \in 1..NUM_KEEPERS : keepers[w].liquidations = result.total_liquidations
    /\ result.participation_rate = RatioScale \div NUM_KEEPERS
    /\ result.profit_concentration = RatioScale

-----------------------------------------------------------------------------
(* C32: the keepers of a pool run hold equal profits                       *)

\* the top fifth of equally rich keepers holds this share, in thousandths
\* (10/50 in the program)
TopFifthShare == ((NUM_KEEPERS \div TopShareDivisor) * RatioScale) \div NUM_KEEPERS

EqualProfits ==
    \A j, k \in 1..NUM_KEEPERS : keepers[j].total_profit = keepers[k].total_profit

PoolRunWithProfit ==
    /\ pc = "done"
    /\ mechanism = "KeeperPool"
    /\ \E k \in 1..NUM_KEEPERS : keepers[k].total_profit > 0

\* C32 as claimed: in a Keeper-Pool run all keepers have the same accumulated
\* profit in every reachable state, so the run's profit concentration is
\* exactly the top fifth's share, 10/50 = 0.2, whenever the total profit is
\* positive.
C32_ConcentrationExactlyOneFifth ==
    /\ [](mechanism = "KeeperPool" => EqualProfits)
    /\ [](PoolRunWithProfit => result.profit_concentration = TopFifthShare)

\* C32 as the code has it: in a Keeper-Pool run all keepers have the same
\* accumulated profit in every reachable state, each liquidation paying
\* 0.7 x profit / number of keepers to every keeper whoever executes it, and
\* the run's profit concentration is the top fifth's share up to the
\* rounding of the two floating-point sums it divides.
C32_ConcentrationOneFifthUpToRounding ==
    /\ [](mechanism = "KeeperPool" => EqualProfits)
    /\ [][(ExecutedStep /\ mechanism = "KeeperPool") =>
            \A k \in 1..NUM_KEEPERS :
                Gain(k) = ((ProfitAtPostShock(NextCdp) * 70) \div 100) \div NUM_KEEPERS]_vars
    /\ [](PoolRunWithProfit =>
            /\ result.profit_concentration >= TopFifthShare - 1
            /\ result.profit_concentration <= TopFifthShare + 1)

\* a finished pool run whose executors differ and whose rounded sums do not
\* give the top fifth's share exactly
C32_Witness ==
    /\ PoolRunWithProfit
    /\ result.profit_concentration # TopFifthShare
    /\ \E j, k \in 1..NUM_KEEPERS : keepers[j].liquidations # keepers[k].liquidations

-----------------------------------------------------------------------------
(* C33: four counts of the same liquidations                               *)

\* between two blocks, and after the last
AfterBlock == pc \in {"loop", "finish", "done"}

LiquidatedPositions == Cardinality({i \in 1..NUM_CDPS : cdps[i].is_liquidated})

KeeperCounters == SumSeq([k \in 1..NUM_KEEPERS |-> keepers[k].liquidations])

\* C33: after every block, under either mechanism, total liquidations = the
\* number of positions whose liquidated flag is true = the sum of all
\* keepers' liquidation counters = the sum of the per-block liquidation
\* counts; each executed liquidation increments the counter of exactly one
\* keeper, taken from that liquidation's willing set.
C33_CountsAgree ==
    /\ [](AfterBlock =>
            /\ total_liquidations = LiquidatedPositions
            /\ total_liquidations = KeeperCounters
            /\ total_liquidations = SumSeq(liquidations_per_block))
    /\ [][(InRound /\ LiquidatedPositions' # LiquidatedPositions) =>
            /\ LiquidatedPositions' = LiquidatedPositions + 1
            /\ \E w \in WillingSet :
                  /\ Executions(w) = 1
                  /\ \A k \in 1..NUM_KEEPERS \ {w} : Executions(k) = 0]_vars
    /\ [][(InRound /\ LiquidatedPositions' = LiquidatedPositions) =>
            \A k \in 1..NUM_KEEPERS : Executions(k) = 0]_vars

\* between two blocks of a run that has liquidated in more than one block
\* and through more than one keeper
C33_Witness ==
    /\ pc = "loop"
    /\ total_liquidations >= 2
    /\ Cardinality({n \in 1..Len(liquidations_per_block) :
                        liquidations_per_block[n] > 0}) >= 2
    /\ Cardinality({k \in 1..NUM_KEEPERS : keepers[k].liquidations > 0}) >= 2

-----------------------------------------------------------------------------
(* C34: prices that only fall, and the positions they leave underwater     *)

Deterministic == scenario \in {"GradualDecline", "FlashCrash", "BlackSwan"}

Underwater(i) == is_underwater(cdps[i], eth_price)

\* C34 as claimed: in Gradual Decline, Flash Crash and Black Swan runs the
\* current price never increases from one state to the next, so a position
\* that is underwater at some block stays unliquidated and underwater until
\* termination and contributes to the final bad debt.
C34_UnderwaterStaysUnliquidated ==
    /\ [][Deterministic => eth_price' <= eth_price]_vars
    /\ [][Deterministic =>
            \A i \in 1..NUM_CDPS :
                Underwater(i) => ~cdps'[i].is_liquidated /\ Underwater(i)']_vars
    /\ [](Deterministic /\ pc = "done" =>
            \A i \in 1..NUM_CDPS :
                Underwater(i) =>
                    /\ bad_debt(cdps[i], eth_price) > 0
                    /\ result.bad_debt >= bad_debt(cdps[i], eth_price))

\* C34 as the code has it: in Gradual Decline, Flash Crash and Black Swan
\* runs the current price never increases from one state to the next, so a
\* position that is unliquidated and underwater at some block stays
\* unliquidated and underwater until termination and contributes to the
\* final bad debt.
C34_UnliquidatedUnderwaterStays ==
    /\ [][Deterministic => eth_price' <= eth_price]_vars
    /\ [][Deterministic =>
            \A i \in 1..NUM_CDPS :
                (Underwater(i) /\ ~cdps[i].is_liquidated)
                    => ~cdps'[i].is_liquidated /\ Underwater(i)']_vars
    /\ [](Deterministic /\ pc = "done" =>
            \A i \in 1..NUM_CDPS :
                (Underwater(i) /\ ~cdps[i].is_liquidated) =>
                    /\ bad_debt(cdps[i], eth_price) > 0
                    /\ result.bad_debt >= bad_debt(cdps[i], eth_price))

\* a finished Black Swan run that liquidated a position before the price
\* fell below its debt, and left another one underwater from the first
\* block on
C34_Witness ==
    /\ pc = "done"
    /\ scenario = "BlackSwan"
    /\ \E i \in 1..NUM_CDPS : Underwater(i) /\ cdps[i].is_liquidated
    /\ \E i \in 1..NUM_CDPS :
          /\ is_underwater(cdps[i], price_history[2])
          /\ ~cdps[i].is_liquidated
          /\ bad_debt(cdps[i], eth_price) > 0

-----------------------------------------------------------------------------
(* C35: ties for the highest priority score                                *)

\* the willing keepers no willing keeper outscores
TopScorers ==
    {k \in WillingSet : \A j \in WillingSet :
        keepers[j].gas_priority <= keepers[k].gas_priority}

\* C35: when several willing keepers tie for the highest priority score
\* under the Traditional mechanism, the winner is chosen deterministically:
\* the tied keeper with the highest index, the last of the tied maxima in
\* keeper order, receives the profit and the counter increment, in every
\* liquidation of the run.
C35_LastOfTiedMaximaWins ==
    [][(ExecutedStep /\ mechanism = "Traditional") =>
        \E w \in TopScorers :
            /\ \A k \in TopScorers : k <= w
            /\ Gain(w) = ProfitAtPostShock(NextCdp)
            /\ Executions(w) = 1
            /\ \A k \in 1..NUM_KEEPERS \ {w} : Gain(k) = 0 /\ Executions(k) = 0]_vars

\* a Traditional run in which two keepers, neither of them the last, tie
\* for the highest score, and the later of the two has taken every one of
\* several liquidations
C35_Witness ==
    /\ mechanism = "Traditional"
    /\ \E a, w \in 1..(NUM_KEEPERS - 1) :
          /\ a < w
          /\ keepers[a].gas_priority = keepers[w].gas_priority
          /\ \A k \in 1..NUM_KEEPERS : keepers[k].gas_priority <= keepers[w].gas_priority
          /\ keepers[w].liquidations >= 2
          /\ keepers[w].total_profit > 0
          /\ \A k \in 1..NUM_KEEPERS \ {w} :
                keepers[k].liquidations = 0 /\ keepers[k].total_profit = 0

-----------------------------------------------------------------------------
(* C36: run_monte_carlo sees the price model through its scenario only     *)

\* the models the claim groups together
ModelGroups ==
    {{"GBM", "GARCH"}, {"JumpDiffusion"},
     {"HistoricalMar2020", "HistoricalMay2021", "HistoricalNov2022"}}

\* the models grouped with the model of this call
Twins == CHOOSE g \in ModelGroups : model \in g

====
